---- MODULE Spec2Model ----
(***************************************************************************)
(* Alert evaluation and retry/suppression engine of the Bitcoin            *)
(* monitoring bot: src/src/alerts.py (AlertEngine), src/src/database.py    *)
(* (Database) and the user commands of src/src/bot.py that write the       *)
(* alert store.                                                            *)
(*                                                                         *)
(* Time is counted in ticks of ALERT_RETRY_INTERVAL_LONG seconds (15       *)
(* minutes).  A stored timestamp (alerts.last_retry_at, written by         *)
(* SQLite's CURRENT_TIMESTAMP, which is UTC) is kept as its age: the       *)
(* number of whole ticks since it was written, saturating at AgeCap,       *)
(* beyond which no decision of the code changes.  The engine compares it   *)
(* with datetime.now(), the host's naive local time, so the host's UTC     *)
(* offset is part of the state.  The loop's sleep of CHECK_INTERVAL        *)
(* seconds is shorter than a tick: a cycle starts in the tick the previous *)
(* one ended in, or in a later one.                                        *)
(*                                                                         *)
(* The evaluation loop is one asyncio task.  pc names the await it is      *)
(* suspended at; user commands and the passing of time interleave with it  *)
(* only there.  "no_data", "process" and "checked" are not awaits: the     *)
(* code between two awaits runs without interruption.                      *)
(***************************************************************************)
EXTENDS Integers, Naturals, Sequences, FiniteSets, TLC

(* ------------------------------ bounds -------------------------------- *)
MaxAlerts == 2
MaxDeliveries == 2
MaxCmds == 1
MaxFaults == 1
MaxPrice == 2
MaxChange == 2
MaxOffsetHours == 1

(* --------------------------- program constants ------------------------ *)
CHECK_INTERVAL == 300
ALERT_RETRY_INTERVAL_LONG == 900
MAX_ALERT_RETRIES == 3
SILENT_START_DEFAULT == 23
SILENT_END_DEFAULT == 7
FALLBACK_INTERVAL == 60
CACHE_TTL_MINUTES == 5
USER_AVG_PRICE_CENTS == 11531890
BREAKEVEN_THRESHOLD_PERCENT == 2
RSI_OVERSOLD == 30
RSI_OVERBOUGHT == 70
USER_CHAT_ID == "c1"
MORNING_SUMMARY_HOUR == 8
EVENING_SUMMARY_HOUR == 20
DAILY_CLOSE_HOUR == 23
NULL == -1

TickSeconds == ALERT_RETRY_INTERVAL_LONG
HourSeconds == 60 * 60
AgeCap == (ALERT_RETRY_INTERVAL_LONG + MaxOffsetHours * HourSeconds) \div TickSeconds
\* the age of a cache marker is counted in sleeps of the loop, up to one hour
CacheAgeCap == HourSeconds \div CHECK_INTERVAL

Chats == {"c1", "c2"}
AlertIds == 1..MaxAlerts
AlertTypes == {"price", "change"}
Currencies == {"USD", "BRL"}
Comparisons == {"above", "below"}
Values == 1..MaxPrice
Hours == 0..23
Timezones == {"America/Sao_Paulo", "Invalid/Zone"}
NotesInputs == {"", "sold"}
SilentInputs == {<<22, 6>>, <<8, 20>>}
HostOffsets == (0 - MaxOffsetHours)..MaxOffsetHours

VARIABLES
    alerts,         \* table alerts: id -> row (rows of deleted rules are gone)
    next_id,        \* AUTOINCREMENT counter of table alerts
    user_config,    \* table user_config: chat_id -> row
    alert_history,  \* table alert_history, rows in insertion order
    outbox,         \* messages bot.send_message has delivered, in order
    running,        \* AlertEngine.running
    pc,             \* where the evaluation loop task is suspended
    market_data,    \* _check_all_alerts' local market_data
    todo,           \* the rest of _check_all_alerts' local list alerts (row copies)
    is_silent,      \* _send_alert's result of _is_silent_hours
    current_hour,   \* _is_silent_hours' local current_hour, NULL when not computed
    market_cache,   \* table market_cache: key -> age of updated_at
    loop_tasks,     \* live tasks running _alert_loop
    quiet_market,   \* this run's prices stay far from the breakeven, its RSI neutral
    run_pc,         \* where BTCTelegramBot.run is: "serving", "stopped" or "closed"
    scheduler_running,  \* AlertEngine.scheduler.running
    digest,         \* where the digest job in flight is suspended, "none" without one
    market_call,    \* the last call of a MarketDataCollector method: input and result
    db_call,        \* the last call of a Database method with any input, and its result
    digest_job,     \* the digest job in flight or the last one finished: what it did
    enable_daily_summaries,  \* config.ENABLE_DAILY_SUMMARIES
    jobs,           \* the ids of the jobs added to AlertEngine.scheduler
    session,        \* MarketDataCollector.session: who opened it and whether it is open
    sessions,       \* who opened the sessions left open that the collector lost track of
    host_offset,    \* the host's local time minus UTC, in hours
    cmds,           \* user commands handled so far
    faults          \* exceptions raised so far by the store and by Telegram

vars == <<alerts, next_id, user_config, alert_history, outbox, running, pc,
          market_data, todo, is_silent, current_hour, market_cache,
          loop_tasks, quiet_market, run_pc, scheduler_running, digest,
          market_call, db_call, digest_job, enable_daily_summaries, jobs,
          session, sessions, host_offset, cmds, faults>>

(* ------------------------------- store -------------------------------- *)

\* CREATE TABLE alerts: the defaults of a row inserted by add_alert
NewAlert(id, chat_id, alert_type, value, currency, comparison) ==
    [id |-> id, chat_id |-> chat_id, type |-> alert_type, value |-> value,
     currency |-> currency, comparison |-> comparison, status |-> "active",
     retry_count |-> 0, last_retry_at |-> NULL, acked_at |-> NULL, notes |-> ""]

\* CREATE TABLE user_config: the defaults of a row inserted by create_user_config
DefaultUserConfig ==
    [timezone |-> "America/Sao_Paulo", silent_start |-> SILENT_START_DEFAULT,
     silent_end |-> SILENT_END_DEFAULT, notifications_enabled |-> TRUE]

\* Database.create_user_config: INSERT OR IGNORE
CreateUserConfig(cfgs, chat_id) ==
    IF chat_id \in DOMAIN cfgs THEN cfgs ELSE cfgs @@ (chat_id :> DefaultUserConfig)

\* Database.get_active_alerts(): SELECT * FROM alerts WHERE status = 'active', by rowid
RECURSIVE ActiveFrom(_, _)
ActiveFrom(tbl, id) ==
    IF id > MaxAlerts THEN << >>
    ELSE IF id \in DOMAIN tbl /\ tbl[id].status = "active"
         THEN <<tbl[id]>> \o ActiveFrom(tbl, id + 1)
         ELSE ActiveFrom(tbl, id + 1)

GetActiveAlerts(tbl) == ActiveFrom(tbl, 1)

\* an update_alert_retry that also closes the rule once the retries are used up
UpdateAlertRetryClosing(tbl, id) ==
    IF id \in DOMAIN tbl
    THEN [tbl EXCEPT ![id].retry_count = @ + 1, ![id].last_retry_at = 0,
                     ![id].status = IF tbl[id].retry_count + 1 >= MAX_ALERT_RETRIES
                                    THEN "acknowledged" ELSE @]
    ELSE tbl

\* Database.update_alert_retry: UPDATE alerts SET retry_count = retry_count + 1,
\* last_retry_at = CURRENT_TIMESTAMP WHERE id = ?
UpdateAlertRetry(tbl, id) ==
    IF id \in DOMAIN tbl
    THEN [tbl EXCEPT ![id].retry_count = @ + 1, ![id].last_retry_at = 0]
    ELSE tbl

\* an acknowledge_alert whose UPDATE does not look at the status
AcknowledgeAlertAnyStatus(tbl, id, notes) ==
    IF id \in DOMAIN tbl
    THEN [tbl EXCEPT ![id].status = "acknowledged", ![id].acked_at = 0,
                     ![id].notes = notes]
    ELSE tbl

\* Database.acknowledge_alert: UPDATE ... WHERE id = ? AND status = 'active'
AcknowledgeAlert(tbl, id, notes) ==
    IF id \in DOMAIN tbl /\ tbl[id].status = "active"
    THEN [tbl EXCEPT ![id].status = "acknowledged", ![id].acked_at = 0,
                     ![id].notes = notes]
    ELSE tbl

\* a delete_alert whose DELETE does not look at the owner
DeleteAlertAnyChat(tbl, id, chat_id) ==
    IF id \in DOMAIN tbl
    THEN [i \in DOMAIN tbl \ {id} |-> tbl[i]]
    ELSE tbl

\* Database.delete_alert: DELETE FROM alerts WHERE id = ? AND chat_id = ?
DeleteAlert(tbl, id, chat_id) ==
    IF id \in DOMAIN tbl /\ tbl[id].chat_id = chat_id
    THEN [i \in DOMAIN tbl \ {id} |-> tbl[i]]
    ELSE tbl

\* an add_alert_history that binds the two prices in the other order
HistoryRowSwapped(alert, md) ==
    [alert_id |-> alert.id, chat_id |-> alert.chat_id, price_usd |-> md.brl,
     price_brl |-> md.usd, variation_24h |-> md.change_24h,
     volume_24h |-> md.volume_24h]

\* Database.add_alert_history: the row inserted
HistoryRow(alert, md) ==
    [alert_id |-> alert.id, chat_id |-> alert.chat_id, price_usd |-> md.usd,
     price_brl |-> md.brl, variation_24h |-> md.change_24h,
     volume_24h |-> md.volume_24h]

(* ------------------------------- engine ------------------------------- *)

Abs(x) == IF x < 0 THEN 0 - x ELSE x

\* a trigger predicate with strict price comparisons
ShouldTriggerStrict(alert, md) ==
    LET current_price == IF alert.currency = "USD" THEN md.usd ELSE md.brl
    IN  IF alert.type = "price"
        THEN \/ alert.comparison = "above" /\ current_price > alert.value
             \/ alert.comparison = "below" /\ current_price < alert.value
        ELSE IF alert.type = "change"
             THEN Abs(md.change_24h) >= alert.value
             ELSE FALSE

\* a trigger predicate that compares the signed 24h change
ShouldTriggerSigned(alert, md) ==
    LET current_price == IF alert.currency = "USD" THEN md.usd ELSE md.brl
    IN  IF alert.type = "price"
        THEN \/ alert.comparison = "above" /\ current_price >= alert.value
             \/ alert.comparison = "below" /\ current_price <= alert.value
        ELSE IF alert.type = "change"
             THEN md.change_24h >= alert.value
             ELSE FALSE

\* _process_alert, lines 98-112: the trigger predicate of one rule
ShouldTrigger(alert, md) ==
    LET current_price == IF alert.currency = "USD" THEN md.usd ELSE md.brl
    IN  IF alert.type = "price"
        THEN \/ alert.comparison = "above" /\ current_price >= alert.value
             \/ alert.comparison = "below" /\ current_price <= alert.value
        ELSE IF alert.type = "change"
             THEN Abs(md.change_24h) >= alert.value
             ELSE FALSE

\* pytz.timezone(tz) and datetime.now(tz).hour, from the hour of the day in UTC
ZoneKnown(tz) == tz = "America/Sao_Paulo"
ZoneOffset(tz) == IF tz = "America/Sao_Paulo" THEN 0 - 3 ELSE 0
LocalHour(utc_hour, tz) == (utc_hour + ZoneOffset(tz) + 24) % 24

\* a window test whose end hour is still silent
SilentWindowClosed(hour, silent_start, silent_end) ==
    IF silent_start > silent_end
    THEN hour >= silent_start \/ hour <= silent_end
    ELSE silent_start <= hour /\ hour <= silent_end

\* a window test that takes equal hours as a window around the whole day
SilentWindowWrapsOnEqual(hour, silent_start, silent_end) ==
    IF silent_start >= silent_end
    THEN hour >= silent_start \/ hour < silent_end
    ELSE silent_start <= hour /\ hour < silent_end

\* _is_silent_hours, lines 346-351: the window test
SilentWindow(hour, silent_start, silent_end) ==
    IF silent_start > silent_end
    THEN hour >= silent_start \/ hour < silent_end
    ELSE silent_start <= hour /\ hour < silent_end

\* _is_silent_hours, lines 328-360, on the row get_user_config returned
IsSilentHours(cfg, utc_hour) ==
    IF ~cfg.notifications_enabled THEN TRUE
    ELSE IF ~ZoneKnown(cfg.timezone) THEN FALSE
    ELSE SilentWindow(LocalHour(utc_hour, cfg.timezone), cfg.silent_start,
                      cfg.silent_end)

\* _is_silent_hours, lines 332-338: current_hour, when the code gets to compute it
CurrentHour(cfg, utc_hour) ==
    IF cfg.notifications_enabled /\ ZoneKnown(cfg.timezone)
    THEN LocalHour(utc_hour, cfg.timezone)
    ELSE NULL

\* _send_alert, lines 133-134: datetime.now() - datetime.fromisoformat(last_retry)
ElapsedSeconds(age, offset_hours) == age * TickSeconds + offset_hours * HourSeconds

\* a backoff that starts with the first delivery
RetryBackoffFromFirst(alert, offset_hours) ==
    /\ alert.retry_count >= 1
    /\ alert.last_retry_at # NULL
    /\ ElapsedSeconds(alert.last_retry_at, offset_hours) < ALERT_RETRY_INTERVAL_LONG

\* a backoff that never ends once the retries are used up
RetryBackoffForever(alert, offset_hours) ==
    /\ alert.retry_count >= MAX_ALERT_RETRIES
    /\ alert.last_retry_at # NULL

\* _send_alert, lines 129-135: the retry-exhaustion backoff
RetryBackoff(alert, offset_hours) ==
    /\ alert.retry_count >= MAX_ALERT_RETRIES
    /\ alert.last_retry_at # NULL
    /\ ElapsedSeconds(alert.last_retry_at, offset_hours) < ALERT_RETRY_INTERVAL_LONG

\* _format_alert_message, lines 177-188, and send_message's chat_id
AlertMessage(alert) ==
    [kind |-> "alert", chat_id |-> alert.chat_id, alert_id |-> alert.id,
     attempt |-> alert.retry_count + 1]

\* 24h changes: a fall of MaxChange percent, none, a rise of MaxChange - 1
Changes == {0 - MaxChange, 0, MaxChange - 1}

\* the (USD price, 24h change) pairs of the snapshots: the lowest price with the
\* fall, the highest price with no change and with the rise
Quotes == {<<1, 0 - MaxChange>>, <<MaxPrice, 0>>, <<MaxPrice, MaxChange - 1>>}

\* market_data.get('rsi', 50), in tenths of a point
RSI_DEFAULT == 500

NoMarketData ==
    [ok |-> FALSE, has_price |-> FALSE, usd |-> 0, brl |-> 0, change_24h |-> 0,
     volume_24h |-> 0, rsi |-> RSI_DEFAULT]

\* what MarketDataCollector.get_market_summary can return: a summary with the
\* price (the BRL price differs from the USD price), a summary whose price fetch
\* failed, and no summary
Snapshots ==
    {[ok |-> TRUE, has_price |-> TRUE, usd |-> q[1], brl |-> MaxPrice + 1 - q[1],
      change_24h |-> q[2], volume_24h |-> MaxPrice + 2, rsi |-> RSI_DEFAULT] :
        q \in Quotes}
    \cup {[NoMarketData EXCEPT !.ok = TRUE]} \cup {NoMarketData}

\* MarketDataCollector.check_breakeven_proximity, on a price in whole dollars:
\* abs(diff_percent) <= BREAKEVEN_THRESHOLD * 100
CheckBreakevenProximity(current_price) ==
    Abs(current_price * 100 - USER_AVG_PRICE_CENTS) * 100
        <= BREAKEVEN_THRESHOLD_PERCENT * USER_AVG_PRICE_CENTS

\* gap / base * 100 in hundredths, cut off, by long division (the numbers of
\* the direct formula do not fit TLC's integers)
PercentHundredths(gap, base) ==
    ((gap * 1000) \div base) * 10 + ((((gap * 1000) % base) * 10) \div base)

\* a proximity test that measures the distance against the current price
BreakevenProximityOfPrice(cents) ==
    [is_near |-> Abs(cents - USER_AVG_PRICE_CENTS) * 100
                    <= BREAKEVEN_THRESHOLD_PERCENT * cents,
     diff_percent |->
        (IF cents < USER_AVG_PRICE_CENTS THEN 0 - 1 ELSE 1)
        * PercentHundredths(Abs(cents - USER_AVG_PRICE_CENTS), cents)]

\* MarketDataCollector.check_breakeven_proximity, lines 277-285, on a price in
\* cents: (is_near, diff_percent), the difference in hundredths of a percent,
\* cut off towards zero
BreakevenProximity(cents) ==
    [is_near |-> Abs(cents - USER_AVG_PRICE_CENTS) * 100
                    <= BREAKEVEN_THRESHOLD_PERCENT * USER_AVG_PRICE_CENTS,
     diff_percent |->
        (IF cents < USER_AVG_PRICE_CENTS THEN 0 - 1 ELSE 1)
        * PercentHundredths(Abs(cents - USER_AVG_PRICE_CENTS), USER_AVG_PRICE_CENTS)]

\* _check_special_conditions, line 206, on an RSI in tenths of a point
RsiExtreme(rsi) == rsi <= RSI_OVERSOLD * 10 \/ rsi >= RSI_OVERBOUGHT * 10

\* int(rsi)
IntRsi(rsi) == rsi \div 10

\* the cache keys of the special conditions; an RSI marker is keyed by int(rsi)
BreakevenKey == <<"breakeven_alert_sent", 0>>
\* one marker shared by every RSI value
RsiKeyShared(rsi) == <<"rsi_alert", 0>>

RsiKey(rsi) == <<"rsi_alert", IntRsi(rsi)>>

\* USD prices around the breakeven: inside the 2% band and above it
EventfulPrices == {115000, 120000}

\* RSI values calculate_rsi can return, in tenths: two with the same integer part
\* below the oversold bound, the oversold bound itself, a neutral one with the
\* same integer part as the bound, and the overbought bound
EventfulRsis ==
    {245, 249, RSI_OVERSOLD * 10, RSI_OVERSOLD * 10 + 5, RSI_OVERBOUGHT * 10}

\* the summaries of a market that comes near the breakeven and reaches RSI
\* extremes, and no summary; calculate_rsi, line 216, works on a price fetch of
\* its own, so the RSI is not tied to the change_24h of the summary's price
EventfulSnapshots ==
    {[ok |-> TRUE, has_price |-> TRUE, usd |-> p, brl |-> 5 * p,
      change_24h |-> 0, volume_24h |-> MaxPrice + 2, rsi |-> r] :
        p \in EventfulPrices, r \in EventfulRsis}
    \cup {NoMarketData}

\* a get_cache for which a marker never expires
GetCacheForever(cache, key, ttl_minutes) == key \in DOMAIN cache

\* Database.get_cache(key): the row is there and
\* datetime(updated_at) > datetime('now', '-ttl_minutes minutes')
GetCache(cache, key, ttl_minutes) ==
    key \in DOMAIN cache /\ cache[key] * CHECK_INTERVAL < ttl_minutes * 60

\* Database.set_cache(key, '1'): INSERT OR REPLACE ... CURRENT_TIMESTAMP
SetCache(cache, key) ==
    [k \in DOMAIN cache \cup {key} |-> IF k = key THEN 0 ELSE cache[k]]

\* n sleeps of CHECK_INTERVAL seconds later, every marker is n older
AgedCache(cache, n) ==
    [k \in DOMAIN cache |->
        IF cache[k] + n >= CacheAgeCap THEN CacheAgeCap ELSE cache[k] + n]

\* the text send_message is given by the special conditions
SpecialMessage(kind) ==
    [kind |-> kind, chat_id |-> USER_CHAT_ID, alert_id |-> NULL, attempt |-> 0]

Older(age) == IF age = NULL \/ age >= AgeCap THEN age ELSE age + 1

(* --------------------------- collector session ------------------------- *)

\* MarketDataCollector.__init__, line 21: self.session = None
NoSession == [by |-> "none", open |-> FALSE]

\* MarketDataCollector.__aenter__, line 24: self.session is a new ClientSession,
\* opened for the evaluation cycle ("cycle") or for a digest ("digest")
EnterSession(by) == [by |-> by, open |-> TRUE]

\* MarketDataCollector.__aenter__, line 24: the session self.session referred
\* to is no longer referred to; when it is open nobody can close it any more
Orphaned(held, lost) == IF held.open THEN lost \cup {held.by} ELSE lost

\* MarketDataCollector.__aexit__, lines 28-29: the session self.session refers
\* to now is closed
ExitSession(held) == [held EXCEPT !.open = FALSE]

\* the three digests: _send_morning_summary, _send_evening_summary and
\* _send_daily_close_summary, by the ids _setup_daily_summaries gives their jobs
Summaries == {"morning_summary", "evening_summary", "daily_close"}

\* no digest has run yet
NoDigestJob ==
    [summary |-> "none", by |-> "none", silent |-> FALSE, fetched |-> 0, sent |-> 0]

\* a digest that starts: which one, and whether the scheduler's cron trigger
\* ("cron") or cmd_daily ("daily") runs it
NewDigestJob(summary, by) ==
    [summary |-> summary, by |-> by, silent |-> FALSE, fetched |-> 0, sent |-> 0]

(* ------------------------------ initial ------------------------------- *)

\* a rule never delivered, as add_alert inserts it
FreshRule == NewAlert(1, "c1", "price", MaxPrice, "USD", "above")

\* rules an earlier run of the bot left in the store: one never delivered, one
\* delivered MAX_ALERT_RETRIES - 1 times, the last time just now, and one the
\* user has acknowledged
EarlierRules ==
    {FreshRule,
     [FreshRule EXCEPT !.retry_count = MAX_ALERT_RETRIES - 1, !.last_retry_at = 0],
     [FreshRule EXCEPT !.retry_count = 1, !.last_retry_at = 0,
                       !.status = "acknowledged", !.acked_at = AgeCap,
                       !.notes = "sold"]}

\* what is the same in every initial state: nothing sent, the engine not started
InitRest ==
    /\ alert_history = << >>
    /\ outbox = << >>
    /\ running = FALSE
    /\ pc = "idle"
    /\ market_data = NoMarketData
    /\ todo = << >>
    /\ is_silent = FALSE
    /\ current_hour = NULL
    /\ market_cache = << >>
    /\ loop_tasks = 0
    /\ run_pc = "serving"
    /\ scheduler_running = FALSE
    /\ digest = "none"
    /\ market_call = [method |-> "none"]
    /\ db_call = [method |-> "none"]
    /\ digest_job = NoDigestJob
    /\ enable_daily_summaries = TRUE
    /\ jobs = {}
    /\ session = NoSession
    /\ sessions = {}
    /\ cmds = 0
    /\ faults = 0

Init ==
    /\ \/ alerts = << >> /\ next_id = 1
       \/ \E r \in EarlierRules : alerts = (1 :> r) /\ next_id = 2
    /\ user_config = << >>
    /\ host_offset \in HostOffsets
    /\ quiet_market = TRUE
    /\ InitRest

(* ---------------------------- engine steps ---------------------------- *)

\* the loop task is at an await: other coroutines run and time passes
Suspended == pc \notin {"no_data", "process", "checked"}

\* the loop moves on to the next alert of its list
NextAlert ==
    /\ todo' = Tail(todo)
    /\ pc' = "process"

\* a start that creates a loop task whether or not the engine is running
start_unguarded ==
    /\ running' = TRUE
    /\ loop_tasks' = loop_tasks + 1
    /\ pc' = "fetch"
    /\ scheduler_running' = TRUE
    /\ session' = EnterSession("cycle")
    /\ sessions' = Orphaned(session, sessions)
    /\ jobs' = IF enable_daily_summaries THEN Summaries ELSE {}
    /\ UNCHANGED <<alerts, next_id, user_config, alert_history, outbox,
                   market_data, todo, is_silent, current_hour, host_offset,
                   market_cache, quiet_market, market_call, db_call, run_pc, digest, cmds, faults,
                   digest_job, enable_daily_summaries>>

\* AlertEngine.start, called by BTCTelegramBot.run, line 568, before it serves
start ==
    /\ run_pc = "serving"
    /\ ~running
    /\ running' = TRUE
    /\ loop_tasks' = loop_tasks + 1
    /\ pc' = "fetch"
    /\ scheduler_running' = TRUE
    /\ session' = EnterSession("cycle")
    /\ sessions' = Orphaned(session, sessions)
    /\ jobs' = IF enable_daily_summaries THEN Summaries ELSE {}
    /\ UNCHANGED <<alerts, next_id, user_config, alert_history, outbox,
                   market_data, todo, is_silent, current_hour, host_offset,
                   market_cache, quiet_market, market_call, db_call, run_pc, digest, cmds, faults,
                   digest_job, enable_daily_summaries>>

\* _check_all_alerts, lines 72-76: get_market_summary returns
fetch_market ==
    /\ pc = "fetch"
    /\ \E md \in IF quiet_market THEN Snapshots ELSE EventfulSnapshots :
          /\ market_data' = IF md.ok THEN md ELSE NoMarketData
          /\ pc' = IF md.ok THEN "load" ELSE "no_data"
    /\ session' = ExitSession(session)
    /\ UNCHANGED <<alerts, next_id, user_config, alert_history, outbox,
                   running, todo, is_silent, current_hour, host_offset,
                   market_cache, loop_tasks, quiet_market, market_call, db_call,
                   run_pc, scheduler_running, digest, cmds, faults,
                   digest_job, enable_daily_summaries, jobs, sessions>>

\* _check_all_alerts, lines 72-73 and 87-88: opening the collector's session
\* or get_market_summary raises
fetch_market_raises ==
    /\ pc = "fetch"
    /\ faults < MaxFaults
    /\ faults' = faults + 1
    /\ pc' = "sleep"
    /\ session' = ExitSession(session)
    /\ UNCHANGED <<alerts, next_id, user_config, alert_history, outbox,
                   running, market_data, todo, is_silent, current_hour,
                   host_offset, market_cache, loop_tasks, quiet_market, market_call, db_call,
                   run_pc, scheduler_running, digest, cmds,
                   digest_job, enable_daily_summaries, jobs, sessions>>

\* _check_all_alerts, lines 74-76: no market data, the cycle ends
no_market_data ==
    /\ pc = "no_data"
    /\ pc' = "sleep"
    /\ UNCHANGED <<alerts, next_id, user_config, alert_history, outbox,
                   running, market_data, todo, is_silent, current_hour,
                   host_offset,
                   market_cache, loop_tasks, quiet_market, market_call, db_call,
                   run_pc, scheduler_running, digest, cmds, faults,
                   digest_job, enable_daily_summaries, jobs, session, sessions>>

\* _check_all_alerts, line 79: get_active_alerts returns
load_alerts ==
    /\ pc = "load"
    /\ todo' = GetActiveAlerts(alerts)
    /\ pc' = "process"
    /\ UNCHANGED <<alerts, next_id, user_config, alert_history, outbox,
                   running, market_data, is_silent, current_hour, host_offset,
                   market_cache, loop_tasks, quiet_market, market_call, db_call,
                   run_pc, scheduler_running, digest, cmds, faults,
                   digest_job, enable_daily_summaries, jobs, session, sessions>>

\* a get_active_alerts failure that nothing catches: the loop task ends
load_alerts_unhandled ==
    /\ pc = "load"
    /\ faults < MaxFaults
    /\ faults' = faults + 1
    /\ pc' = "idle"
    /\ market_data' = NoMarketData
    /\ UNCHANGED <<alerts, next_id, user_config, alert_history, outbox,
                   running, todo, is_silent, current_hour, host_offset,
                   market_cache, loop_tasks, quiet_market, market_call, db_call,
                   run_pc, scheduler_running, digest, cmds,
                   digest_job, enable_daily_summaries, jobs, session, sessions>>

\* _check_all_alerts, lines 79 and 87-88: get_active_alerts raises
load_alerts_raises ==
    /\ pc = "load"
    /\ faults < MaxFaults
    /\ faults' = faults + 1
    /\ pc' = "sleep"
    /\ market_data' = NoMarketData
    /\ UNCHANGED <<alerts, next_id, user_config, alert_history, outbox,
                   running, todo, is_silent, current_hour, host_offset,
                   market_cache, loop_tasks, quiet_market, market_call, db_call,
                   run_pc, scheduler_running, digest, cmds,
                   digest_job, enable_daily_summaries, jobs, session, sessions>>

\* a _process_alert that reads a missing price as the zero default
process_alert_on_defaults ==
    /\ pc = "process"
    /\ todo # << >>
    /\ IF ShouldTrigger(Head(todo), market_data)
       THEN pc' = "is_silent" /\ UNCHANGED todo
       ELSE NextAlert
    /\ UNCHANGED <<alerts, next_id, user_config, alert_history, outbox,
                   running, market_data, is_silent, current_hour, host_offset,
                   market_cache, loop_tasks, quiet_market, market_call, db_call,
                   run_pc, scheduler_running, digest, cmds, faults,
                   digest_job, enable_daily_summaries, jobs, session, sessions>>

\* _process_alert, lines 90-118, up to the first await of _send_alert
process_alert ==
    /\ pc = "process"
    /\ todo # << >>
    /\ IF market_data.has_price /\ ShouldTrigger(Head(todo), market_data)
       THEN pc' = "is_silent" /\ UNCHANGED todo
       ELSE NextAlert
    /\ UNCHANGED <<alerts, next_id, user_config, alert_history, outbox,
                   running, market_data, is_silent, current_hour, host_offset,
                   market_cache, loop_tasks, quiet_market, market_call, db_call,
                   run_pc, scheduler_running, digest, cmds, faults,
                   digest_job, enable_daily_summaries, jobs, session, sessions>>

\* _is_silent_hours, lines 326-356: get_user_config returns (and has created the
\* owner's default row when there was none)
is_silent_hours ==
    /\ pc = "is_silent"
    /\ \E utc_hour \in Hours :
         LET cfgs == CreateUserConfig(user_config, Head(todo).chat_id)
         IN  /\ user_config' = cfgs
             /\ is_silent' = IsSilentHours(cfgs[Head(todo).chat_id], utc_hour)
             /\ current_hour' = CurrentHour(cfgs[Head(todo).chat_id], utc_hour)
    /\ pc' = "checked"
    /\ UNCHANGED <<alerts, next_id, alert_history, outbox, running,
                   market_data, todo, host_offset,
                   market_cache, loop_tasks, quiet_market, market_call, db_call,
                   run_pc, scheduler_running, digest, cmds, faults,
                   digest_job, enable_daily_summaries, jobs, session, sessions>>

\* a quiet-hours lookup that counts the owner as silent when it fails
is_silent_hours_fails_closed ==
    /\ pc = "is_silent"
    /\ faults < MaxFaults
    /\ faults' = faults + 1
    /\ is_silent' = TRUE
    /\ current_hour' = NULL
    /\ pc' = "checked"
    /\ UNCHANGED <<alerts, next_id, user_config, alert_history, outbox,
                   running, market_data, todo, host_offset,
                   market_cache, loop_tasks, quiet_market, market_call, db_call,
                   run_pc, scheduler_running, digest, cmds,
                   digest_job, enable_daily_summaries, jobs, session, sessions>>

\* _is_silent_hours, lines 358-360: get_user_config raises, the owner counts as
\* not silent
is_silent_hours_raises ==
    /\ pc = "is_silent"
    /\ faults < MaxFaults
    /\ faults' = faults + 1
    /\ is_silent' = FALSE
    /\ current_hour' = NULL
    /\ pc' = "checked"
    /\ UNCHANGED <<alerts, next_id, user_config, alert_history, outbox,
                   running, market_data, todo, host_offset,
                   market_cache, loop_tasks, quiet_market, market_call, db_call,
                   run_pc, scheduler_running, digest, cmds,
                   digest_job, enable_daily_summaries, jobs, session, sessions>>

\* a _send_alert without the quiet-hours return
send_alert_checks_loud ==
    /\ pc = "checked"
    /\ IF RetryBackoff(Head(todo), host_offset)
       THEN NextAlert
       ELSE pc' = "send" /\ UNCHANGED todo
    /\ is_silent' = FALSE
    /\ current_hour' = NULL
    /\ UNCHANGED <<alerts, next_id, user_config, alert_history, outbox,
                   running, market_data, host_offset,
                   market_cache, loop_tasks, quiet_market, market_call, db_call,
                   run_pc, scheduler_running, digest, cmds, faults,
                   digest_job, enable_daily_summaries, jobs, session, sessions>>

\* _send_alert, lines 124-138: the quiet-hours return and the retry check
send_alert_checks ==
    /\ pc = "checked"
    /\ IF is_silent \/ RetryBackoff(Head(todo), host_offset)
       THEN NextAlert
       ELSE pc' = "send" /\ UNCHANGED todo
    /\ is_silent' = FALSE
    /\ current_hour' = NULL
    /\ UNCHANGED <<alerts, next_id, user_config, alert_history, outbox,
                   running, market_data, host_offset,
                   market_cache, loop_tasks, quiet_market, market_call, db_call,
                   run_pc, scheduler_running, digest, cmds, faults,
                   digest_job, enable_daily_summaries, jobs, session, sessions>>

\* _send_alert, lines 141-145: bot.send_message returns
send_message ==
    /\ pc = "send"
    /\ Len(outbox) < MaxDeliveries
    /\ outbox' = Append(outbox, AlertMessage(Head(todo)))
    /\ pc' = "update"
    /\ UNCHANGED <<alerts, next_id, user_config, alert_history, running,
                   market_data, todo, is_silent, current_hour, host_offset,
                   market_cache, loop_tasks, quiet_market, market_call, db_call,
                   run_pc, scheduler_running, digest, cmds, faults,
                   digest_job, enable_daily_summaries, jobs, session, sessions>>

\* a failed send that still counts as a delivery of the rule
send_message_raises_counted ==
    /\ pc = "send"
    /\ faults < MaxFaults
    /\ faults' = faults + 1
    /\ alerts' = UpdateAlertRetry(alerts, Head(todo).id)
    /\ NextAlert
    /\ UNCHANGED <<next_id, user_config, alert_history, outbox,
                   running, market_data, is_silent, current_hour, host_offset,
                   market_cache, loop_tasks, quiet_market, market_call, db_call,
                   run_pc, scheduler_running, digest, cmds,
                   digest_job, enable_daily_summaries, jobs, session, sessions>>

\* _send_alert, lines 141-145 and 161-162: bot.send_message raises
send_message_raises ==
    /\ pc = "send"
    /\ faults < MaxFaults
    /\ faults' = faults + 1
    /\ NextAlert
    /\ UNCHANGED <<alerts, next_id, user_config, alert_history, outbox,
                   running, market_data, is_silent, current_hour, host_offset,
                   market_cache, loop_tasks, quiet_market, market_call, db_call,
                   run_pc, scheduler_running, digest, cmds,
                   digest_job, enable_daily_summaries, jobs, session, sessions>>

\* _send_alert, line 148: update_alert_retry returns
update_alert_retry ==
    /\ pc = "update"
    /\ alerts' = UpdateAlertRetry(alerts, Head(todo).id)
    /\ pc' = "history"
    /\ UNCHANGED <<next_id, user_config, alert_history, outbox, running,
                   market_data, todo, is_silent, current_hour, host_offset,
                   market_cache, loop_tasks, quiet_market, market_call, db_call,
                   run_pc, scheduler_running, digest, cmds, faults,
                   digest_job, enable_daily_summaries, jobs, session, sessions>>

\* an update_alert_retry failure that ends the cycle
update_alert_retry_ends_cycle ==
    /\ pc = "update"
    /\ faults < MaxFaults
    /\ faults' = faults + 1
    /\ pc' = "sleep"
    /\ todo' = << >>
    /\ market_data' = NoMarketData
    /\ UNCHANGED <<alerts, next_id, user_config, alert_history, outbox,
                   running, is_silent, current_hour, host_offset,
                   market_cache, loop_tasks, quiet_market, market_call, db_call,
                   run_pc, scheduler_running, digest, cmds,
                   digest_job, enable_daily_summaries, jobs, session, sessions>>

\* _send_alert, lines 148 and 161-162: update_alert_retry raises
update_alert_retry_raises ==
    /\ pc = "update"
    /\ faults < MaxFaults
    /\ faults' = faults + 1
    /\ NextAlert
    /\ UNCHANGED <<alerts, next_id, user_config, alert_history, outbox,
                   running, market_data, is_silent, current_hour, host_offset,
                   market_cache, loop_tasks, quiet_market, market_call, db_call,
                   run_pc, scheduler_running, digest, cmds,
                   digest_job, enable_daily_summaries, jobs, session, sessions>>

\* _send_alert, lines 149-159: add_alert_history returns
add_alert_history ==
    /\ pc = "history"
    /\ alert_history' = Append(alert_history, HistoryRow(Head(todo), market_data))
    /\ NextAlert
    /\ UNCHANGED <<alerts, next_id, user_config, outbox, running, market_data,
                   is_silent, current_hour, host_offset,
                   market_cache, loop_tasks, quiet_market, market_call, db_call,
                   run_pc, scheduler_running, digest, cmds, faults,
                   digest_job, enable_daily_summaries, jobs, session, sessions>>

\* _send_alert, lines 149-157 and 161-162: add_alert_history raises
add_alert_history_raises ==
    /\ pc = "history"
    /\ faults < MaxFaults
    /\ faults' = faults + 1
    /\ NextAlert
    /\ UNCHANGED <<alerts, next_id, user_config, alert_history, outbox,
                   running, market_data, is_silent, current_hour, host_offset,
                   market_cache, loop_tasks, quiet_market, market_call, db_call,
                   run_pc, scheduler_running, digest, cmds,
                   digest_job, enable_daily_summaries, jobs, session, sessions>>

\* _check_special_conditions, lines 198-202 and 205-207: the snapshot has a
\* price, and that price is near the breakeven or the RSI is extreme
SomethingSpecial ==
    /\ market_data.has_price
    /\ CheckBreakevenProximity(market_data.usd) \/ RsiExtreme(market_data.rsi)

\* _check_all_alerts, lines 81-85, and _alert_loop, line 63: the rules are done
\* and the special conditions find nothing to send (or no price to look at)
end_cycle ==
    /\ pc = "process"
    /\ todo = << >>
    /\ ~SomethingSpecial
    /\ pc' = "sleep"
    /\ market_data' = NoMarketData
    /\ UNCHANGED <<alerts, next_id, user_config, alert_history, outbox,
                   running, todo, is_silent, current_hour, host_offset,
                   market_cache, loop_tasks, quiet_market, market_call, db_call,
                   run_pc, scheduler_running, digest, cmds, faults,
                   digest_job, enable_daily_summaries, jobs, session, sessions>>

(* -------------------------- special conditions ------------------------- *)

\* _check_all_alerts returns and _alert_loop, line 63, starts its sleep
EndCycle ==
    /\ pc' = "sleep"
    /\ market_data' = NoMarketData

\* _check_special_conditions, lines 204-207: the RSI check, reached when the
\* breakeven part has returned
CheckRsi ==
    IF RsiExtreme(market_data.rsi)
    THEN pc' = "rsi_cache" /\ UNCHANGED market_data
    ELSE EndCycle

\* _check_special_conditions, lines 196-207, up to the first await: the rules
\* are done and there is something special in the snapshot
check_special_conditions ==
    /\ pc = "process"
    /\ todo = << >>
    /\ SomethingSpecial
    /\ IF CheckBreakevenProximity(market_data.usd)
       THEN pc' = "be_cache" /\ UNCHANGED market_data
       ELSE CheckRsi
    /\ UNCHANGED <<alerts, next_id, user_config, alert_history, outbox,
                   running, todo, is_silent, current_hour, host_offset,
                   market_cache, loop_tasks, quiet_market, market_call, db_call,
                   run_pc, scheduler_running, digest, cmds, faults,
                   digest_job, enable_daily_summaries, jobs, session, sessions>>

\* _send_breakeven_alert, lines 273-275: get_cache('breakeven_alert_sent') returns
breakeven_get_cache ==
    /\ pc = "be_cache"
    /\ IF GetCache(market_cache, BreakevenKey, CACHE_TTL_MINUTES)
       THEN CheckRsi
       ELSE pc' = "be_send" /\ UNCHANGED market_data
    /\ UNCHANGED <<alerts, next_id, user_config, alert_history, outbox,
                   running, todo, is_silent, current_hour, host_offset,
                   market_cache, loop_tasks, quiet_market, market_call, db_call,
                   run_pc, scheduler_running, digest, cmds, faults,
                   digest_job, enable_daily_summaries, jobs, session, sessions>>

\* _send_breakeven_alert, lines 291-295: bot.send_message returns
breakeven_send_message ==
    /\ pc = "be_send"
    /\ Len(outbox) < MaxDeliveries
    /\ outbox' = Append(outbox, SpecialMessage("breakeven"))
    /\ pc' = "be_mark"
    /\ UNCHANGED <<alerts, next_id, user_config, alert_history, running,
                   market_data, todo, is_silent, current_hour, host_offset,
                   market_cache, loop_tasks, quiet_market, market_call, db_call,
                   run_pc, scheduler_running, digest, cmds, faults,
                   digest_job, enable_daily_summaries, jobs, session, sessions>>

\* _send_breakeven_alert, line 298: set_cache('breakeven_alert_sent', '1') returns
breakeven_set_cache ==
    /\ pc = "be_mark"
    /\ market_cache' = SetCache(market_cache, BreakevenKey)
    /\ CheckRsi
    /\ UNCHANGED <<alerts, next_id, user_config, alert_history, outbox,
                   running, todo, is_silent, current_hour, host_offset,
                   loop_tasks, quiet_market, market_call, db_call,
                   run_pc, scheduler_running, digest, cmds, faults,
                   digest_job, enable_daily_summaries, jobs, session, sessions>>

\* _send_breakeven_alert has no handler of its own: when get_cache, send_message
\* or set_cache raises, _check_special_conditions, lines 215-216, ends the checks
breakeven_raises ==
    /\ pc \in {"be_cache", "be_send", "be_mark"}
    /\ faults < MaxFaults
    /\ faults' = faults + 1
    /\ EndCycle
    /\ UNCHANGED <<alerts, next_id, user_config, alert_history, outbox,
                   running, todo, is_silent, current_hour, host_offset,
                   market_cache, loop_tasks, quiet_market, market_call, db_call,
                   run_pc, scheduler_running, digest, cmds,
                   digest_job, enable_daily_summaries, jobs, session, sessions>>

\* _send_rsi_alert, lines 302-304: get_cache('rsi_alert_<int(rsi)>') returns
rsi_get_cache ==
    /\ pc = "rsi_cache"
    /\ IF GetCache(market_cache, RsiKey(market_data.rsi), CACHE_TTL_MINUTES)
       THEN EndCycle
       ELSE pc' = "rsi_send" /\ UNCHANGED market_data
    /\ UNCHANGED <<alerts, next_id, user_config, alert_history, outbox,
                   running, todo, is_silent, current_hour, host_offset,
                   market_cache, loop_tasks, quiet_market, market_call, db_call,
                   run_pc, scheduler_running, digest, cmds, faults,
                   digest_job, enable_daily_summaries, jobs, session, sessions>>

\* _send_rsi_alert, lines 318-322: bot.send_message returns
rsi_send_message ==
    /\ pc = "rsi_send"
    /\ Len(outbox) < MaxDeliveries
    /\ outbox' = Append(outbox, SpecialMessage("rsi"))
    /\ pc' = "rsi_mark"
    /\ UNCHANGED <<alerts, next_id, user_config, alert_history, running,
                   market_data, todo, is_silent, current_hour, host_offset,
                   market_cache, loop_tasks, quiet_market, market_call, db_call,
                   run_pc, scheduler_running, digest, cmds, faults,
                   digest_job, enable_daily_summaries, jobs, session, sessions>>

\* _send_rsi_alert, line 324: set_cache('rsi_alert_<int(rsi)>', '1') returns
rsi_set_cache ==
    /\ pc = "rsi_mark"
    /\ market_cache' = SetCache(market_cache, RsiKey(market_data.rsi))
    /\ EndCycle
    /\ UNCHANGED <<alerts, next_id, user_config, alert_history, outbox,
                   running, todo, is_silent, current_hour, host_offset,
                   loop_tasks, quiet_market, market_call, db_call,
                   run_pc, scheduler_running, digest, cmds, faults,
                   digest_job, enable_daily_summaries, jobs, session, sessions>>

\* _send_rsi_alert: get_cache, send_message or set_cache raises, and
\* _check_special_conditions, lines 215-216, logs it
rsi_raises ==
    /\ pc \in {"rsi_cache", "rsi_send", "rsi_mark"}
    /\ faults < MaxFaults
    /\ faults' = faults + 1
    /\ EndCycle
    /\ UNCHANGED <<alerts, next_id, user_config, alert_history, outbox,
                   running, todo, is_silent, current_hour, host_offset,
                   market_cache, loop_tasks, quiet_market, market_call, db_call,
                   run_pc, scheduler_running, digest, cmds,
                   digest_job, enable_daily_summaries, jobs, session, sessions>>

\* the text send_message is given by a digest job
DigestMessage == SpecialMessage("digest")

\* AlertEngine.stop, lines 53-54: scheduler.shutdown() cancels the job in flight
\* (a digest cmd_daily runs is no job of the scheduler)
SchedulerShutdown ==
    /\ scheduler_running' = FALSE
    /\ digest' = IF digest_job.by = "cron" THEN "none" ELSE digest

\* AlertEngine.stop, lines 45-54: the loop task is cancelled at the await it is
\* suspended at and has ended when the await of line 49 returns, then the
\* scheduler is shut down; a write or a send the loop task or the digest job
\* was waiting for may still have gone through
AlertEngineStop ==
    /\ Suspended
    /\ running' = FALSE
    /\ loop_tasks' = IF loop_tasks > 0 THEN loop_tasks - 1 ELSE 0
    /\ \E done \in BOOLEAN, job_done \in BOOLEAN :
          /\ alerts' = IF done /\ pc = "update"
                        THEN UpdateAlertRetry(alerts, Head(todo).id) ELSE alerts
          /\ alert_history' =
                IF done /\ pc = "history"
                THEN Append(alert_history, HistoryRow(Head(todo), market_data))
                ELSE alert_history
          /\ market_cache' =
                IF done /\ pc = "be_mark" THEN SetCache(market_cache, BreakevenKey)
                ELSE IF done /\ pc = "rsi_mark"
                     THEN SetCache(market_cache, RsiKey(market_data.rsi))
                     ELSE market_cache
          /\ user_config' =
                LET of_loop == IF done /\ pc = "is_silent"
                               THEN CreateUserConfig(user_config, Head(todo).chat_id)
                               ELSE user_config
                IN  IF job_done /\ digest = "quiet"
                    THEN CreateUserConfig(of_loop, USER_CHAT_ID)
                    ELSE of_loop
          /\ outbox' =
                LET of_loop ==
                        IF done /\ Len(outbox) < MaxDeliveries /\ pc = "send"
                        THEN Append(outbox, AlertMessage(Head(todo)))
                        ELSE IF done /\ Len(outbox) < MaxDeliveries /\ pc = "be_send"
                        THEN Append(outbox, SpecialMessage("breakeven"))
                        ELSE IF done /\ Len(outbox) < MaxDeliveries /\ pc = "rsi_send"
                        THEN Append(outbox, SpecialMessage("rsi"))
                        ELSE outbox
                IN  IF job_done /\ Len(of_loop) < MaxDeliveries /\ digest = "send"
                    THEN Append(of_loop, DigestMessage)
                    ELSE of_loop
    /\ pc' = "idle"
    /\ todo' = << >>
    /\ market_data' = NoMarketData
    /\ SchedulerShutdown
    /\ session' = IF pc = "fetch" \/ (digest_job.by = "cron" /\ digest \in {"fetch", "send"})
                  THEN ExitSession(session) ELSE session
    /\ UNCHANGED <<next_id, is_silent, current_hour, host_offset,
                   quiet_market, market_call, db_call, cmds, faults,
                   digest_job, enable_daily_summaries, jobs, sessions>>

\* AlertEngine.stop, called while the bot goes on serving
stop ==
    /\ AlertEngineStop
    /\ UNCHANGED run_pc

(* ----------------------------- digest jobs ----------------------------- *)

\* _setup_daily_summaries, lines 369-396: the hour of each cron trigger, in the
\* scheduler's timezone
CronHour(summary) ==
    IF summary = "morning_summary" THEN MORNING_SUMMARY_HOUR
    ELSE IF summary = "evening_summary" THEN EVENING_SUMMARY_HOUR
    ELSE DAILY_CLOSE_HOUR

\* AlertEngine.__init__, line 27: AsyncIOScheduler(timezone='America/Sao_Paulo');
\* the UTC hour at which the cron trigger of a digest fires
CronUtcHour(summary) ==
    (CronHour(summary) - ZoneOffset("America/Sao_Paulo") + 24) % 24

\* the UTC hours at which a digest can reach its quiet-hours test: the hour of
\* its cron trigger, or any hour when cmd_daily runs it
DigestUtcHours(job) ==
    IF job.by = "cron" THEN {CronUtcHour(job.summary)} ELSE Hours

\* the scheduler's cron trigger of _send_morning_summary, _send_evening_summary
\* or _send_daily_close_summary fires: the job runs up to its first await
scheduled_digest ==
    /\ Suspended
    /\ scheduler_running
    /\ digest = "none"
    /\ \E summary \in jobs : digest_job' = NewDigestJob(summary, "cron")
    /\ digest' = "quiet"
    /\ UNCHANGED <<alerts, next_id, user_config, alert_history, outbox, running,
                   pc, market_data, todo, is_silent, current_hour, host_offset,
                   market_cache, loop_tasks, quiet_market, market_call, db_call, run_pc,
                   scheduler_running, cmds, faults,
                   enable_daily_summaries, jobs, session, sessions>>

\* cmd_daily, lines 281-291: /daily morning, /daily evening or /daily close calls
\* the digest's coroutine, which runs up to its first await
daily_digest ==
    /\ Suspended
    /\ running
    /\ digest = "none"
    /\ \E summary \in Summaries : digest_job' = NewDigestJob(summary, "daily")
    /\ digest' = "quiet"
    /\ UNCHANGED <<alerts, next_id, user_config, alert_history, outbox, running,
                   pc, market_data, todo, is_silent, current_hour, host_offset,
                   market_cache, loop_tasks, quiet_market, market_call, db_call, run_pc,
                   scheduler_running, cmds, faults,
                   enable_daily_summaries, jobs, session, sessions>>

\* a digest that opens the collector and fetches before it looks at the owner's
\* quiet hours
digest_fetches_first ==
    /\ Suspended
    /\ digest = "quiet"
    /\ \E utc_hour \in DigestUtcHours(digest_job) :
         LET cfgs == CreateUserConfig(user_config, USER_CHAT_ID)
         IN  /\ user_config' = cfgs
             /\ digest_job' =
                   [digest_job EXCEPT
                      !.silent = IsSilentHours(cfgs[USER_CHAT_ID], utc_hour),
                      !.fetched = 1]
    /\ digest' = "none"
    /\ session' = ExitSession(EnterSession("digest"))
    /\ sessions' = Orphaned(session, sessions)
    /\ UNCHANGED <<alerts, next_id, alert_history, outbox, running,
                   pc, market_data, todo, is_silent, current_hour, host_offset,
                   market_cache, loop_tasks, quiet_market, market_call, db_call, run_pc,
                   scheduler_running, cmds, faults, enable_daily_summaries, jobs>>

\* _send_morning_summary, lines 404-409 (and 476-480, 545-549):
\* _is_silent_hours(config.USER_CHAT_ID) returns; a silent owner ends the job,
\* otherwise the job enters the collector and calls get_market_summary
digest_is_silent_hours ==
    /\ Suspended
    /\ digest = "quiet"
    /\ \E utc_hour \in DigestUtcHours(digest_job) :
         LET cfgs == CreateUserConfig(user_config, USER_CHAT_ID)
             silent == IsSilentHours(cfgs[USER_CHAT_ID], utc_hour)
         IN  /\ user_config' = cfgs
             /\ digest_job' = [digest_job EXCEPT !.silent = silent]
             /\ digest' = IF silent THEN "none" ELSE "fetch"
             /\ session' = IF silent THEN session ELSE EnterSession("digest")
             /\ sessions' = IF silent THEN sessions ELSE Orphaned(session, sessions)
    /\ UNCHANGED <<alerts, next_id, alert_history, outbox, running,
                   pc, market_data, todo, is_silent, current_hour, host_offset,
                   market_cache, loop_tasks, quiet_market, market_call, db_call, run_pc,
                   scheduler_running, cmds, faults, enable_daily_summaries, jobs>>

\* _is_silent_hours, lines 358-360, called by a digest: get_user_config raises,
\* the owner counts as not silent and the job enters the collector
digest_is_silent_hours_raises ==
    /\ Suspended
    /\ digest = "quiet"
    /\ faults < MaxFaults
    /\ faults' = faults + 1
    /\ digest' = "fetch"
    /\ session' = EnterSession("digest")
    /\ sessions' = Orphaned(session, sessions)
    /\ UNCHANGED <<alerts, next_id, user_config, alert_history, outbox, running,
                   pc, market_data, todo, is_silent, current_hour, host_offset,
                   market_cache, loop_tasks, quiet_market, market_call, db_call, run_pc,
                   scheduler_running, cmds, digest_job, enable_daily_summaries, jobs>>

\* _send_morning_summary, lines 408-412: get_market_summary returns; without a
\* price the job ends in its except branch, leaving the collector
digest_get_market_summary ==
    /\ Suspended
    /\ digest = "fetch"
    /\ \E md \in IF quiet_market THEN Snapshots ELSE EventfulSnapshots :
         /\ digest' = IF md.has_price THEN "send" ELSE "none"
         /\ session' = IF md.has_price THEN session ELSE ExitSession(session)
    /\ digest_job' = [digest_job EXCEPT !.fetched = @ + 1]
    /\ UNCHANGED <<alerts, next_id, user_config, alert_history, outbox, running,
                   pc, market_data, todo, is_silent, current_hour, host_offset,
                   market_cache, loop_tasks, quiet_market, market_call, db_call, run_pc,
                   scheduler_running, cmds, faults,
                   enable_daily_summaries, jobs, sessions>>

\* _send_morning_summary, lines 461-465: bot.send_message returns and the job
\* leaves the collector
digest_send_message ==
    /\ Suspended
    /\ digest = "send"
    /\ Len(outbox) < MaxDeliveries
    /\ outbox' = Append(outbox, DigestMessage)
    /\ digest' = "none"
    /\ digest_job' = [digest_job EXCEPT !.sent = @ + 1]
    /\ session' = ExitSession(session)
    /\ UNCHANGED <<alerts, next_id, user_config, alert_history, running,
                   pc, market_data, todo, is_silent, current_hour, host_offset,
                   market_cache, loop_tasks, quiet_market, market_call, db_call, run_pc,
                   scheduler_running, cmds, faults,
                   enable_daily_summaries, jobs, sessions>>

\* _send_morning_summary, lines 469-470: the fetch or the send raises and the
\* job ends, leaving the collector
digest_raises ==
    /\ Suspended
    /\ digest \in {"fetch", "send"}
    /\ faults < MaxFaults
    /\ faults' = faults + 1
    /\ digest' = "none"
    /\ session' = ExitSession(session)
    /\ UNCHANGED <<alerts, next_id, user_config, alert_history, outbox, running,
                   pc, market_data, todo, is_silent, current_hour, host_offset,
                   market_cache, loop_tasks, quiet_market, market_call, db_call, run_pc,
                   scheduler_running, cmds,
                   digest_job, enable_daily_summaries, jobs, sessions>>

(* ------------------------------ shutdown ------------------------------ *)

\* BTCTelegramBot.run, lines 600-602: the finally block awaits alert_engine.stop()
run_stop ==
    /\ run_pc = "serving"
    /\ AlertEngineStop
    /\ run_pc' = "stopped"

\* a finally block that closes the store without stopping the engine
run_close_first ==
    /\ run_pc = "serving"
    /\ Suspended
    /\ run_pc' = "closed"
    /\ UNCHANGED <<alerts, next_id, user_config, alert_history, outbox, running,
                   pc, market_data, todo, is_silent, current_hour, host_offset,
                   market_cache, loop_tasks, quiet_market, market_call, db_call, scheduler_running,
                   digest, cmds, faults,
                   digest_job, enable_daily_summaries, jobs, session, sessions>>

\* BTCTelegramBot.run, line 603: the finally block awaits db.close()
run_close ==
    /\ run_pc = "stopped"
    /\ Suspended
    /\ run_pc' = "closed"
    /\ UNCHANGED <<alerts, next_id, user_config, alert_history, outbox, running,
                   pc, market_data, todo, is_silent, current_hour, host_offset,
                   market_cache, loop_tasks, quiet_market, market_call, db_call, scheduler_running,
                   digest, cmds, faults,
                   digest_job, enable_daily_summaries, jobs, session, sessions>>

\* _alert_loop, lines 63 and 66: the seconds asyncio.sleep is given at the sleep
\* after _check_all_alerts has returned and at the sleep of the loop's own
\* except branch
LoopSleep(p) ==
    IF p = "sleep" THEN CHECK_INTERVAL
    ELSE IF p = "sleep_fallback" THEN FALLBACK_INTERVAL
    ELSE 0

\* _alert_loop, lines 60-63: asyncio.sleep(CHECK_INTERVAL) returns
wake ==
    /\ pc = "sleep"
    /\ running
    /\ pc' = "fetch"
    /\ market_cache' = AgedCache(market_cache, LoopSleep(pc) \div CHECK_INTERVAL)
    /\ session' = EnterSession("cycle")
    /\ sessions' = Orphaned(session, sessions)
    /\ UNCHANGED <<alerts, next_id, user_config, alert_history, outbox,
                   running, market_data, todo, is_silent, current_hour, host_offset,
                   loop_tasks, quiet_market, market_call, db_call,
                   run_pc, scheduler_running, digest, cmds, faults,
                   digest_job, enable_daily_summaries, jobs>>

\* TickSeconds of time pass: every stored timestamp is one tick older
tick ==
    /\ Suspended
    /\ alerts' = [i \in DOMAIN alerts |->
                    [alerts[i] EXCEPT !.last_retry_at = Older(@),
                                      !.acked_at = Older(@)]]
    /\ todo' = [i \in DOMAIN todo |->
                  [todo[i] EXCEPT !.last_retry_at = Older(@), !.acked_at = Older(@)]]
    /\ market_cache' = AgedCache(market_cache, TickSeconds \div CHECK_INTERVAL)
    /\ UNCHANGED <<next_id, user_config, alert_history, outbox, running, pc,
                   market_data, is_silent, current_hour, host_offset,
                   loop_tasks, quiet_market, market_call, db_call,
                   run_pc, scheduler_running, digest, cmds, faults,
                   digest_job, enable_daily_summaries, jobs, session, sessions>>

(* ---------------------------- user commands --------------------------- *)

\* what the modelled users ask cmd_alert_add for: chat, value, currency, and the
\* price get_btc_price returns at that moment
AlertAddInputs ==
    {<<"c1", 1, "USD", 2>>, <<"c2", MaxPrice, "BRL", 1>>}

\* an /alert_add that takes a threshold at the current price as one to rise to
AlertAddComparisonInclusive(value, current_price) ==
    IF value >= current_price THEN "above" ELSE "below"

\* cmd_alert_add, line 331: 'above' if value > current_price else 'below'
AlertAddComparison(value, current_price) ==
    IF value > current_price THEN "above" ELSE "below"

\* cmd_alert_add, lines 318-340: /alert_add value currency
cmd_alert_add ==
    /\ Suspended
    /\ cmds < MaxCmds
    /\ cmds' = cmds + 1
    /\ next_id <= MaxAlerts
    /\ \E in \in AlertAddInputs :
          LET comparison == AlertAddComparison(in[2], in[4])
          IN  alerts' = alerts @@
                (next_id :> NewAlert(next_id, in[1], "price", in[2], in[3], comparison))
    /\ next_id' = next_id + 1
    /\ UNCHANGED <<user_config, alert_history, outbox, running, pc,
                   market_data, todo, is_silent, current_hour, host_offset,
                   market_cache, loop_tasks, quiet_market, market_call, db_call,
                   run_pc, scheduler_running, digest, faults,
                   digest_job, enable_daily_summaries, jobs, session, sessions>>

\* cmd_acknowledge, lines 445-448: /ack id [notes]
cmd_acknowledge ==
    /\ Suspended
    /\ cmds < MaxCmds
    /\ cmds' = cmds + 1
    /\ \E id \in AlertIds, notes \in NotesInputs :
          alerts' = AcknowledgeAlert(alerts, id, notes)
    /\ UNCHANGED <<next_id, user_config, alert_history, outbox, running,
                   pc, market_data, todo, is_silent, current_hour, host_offset,
                   market_cache, loop_tasks, quiet_market, market_call, db_call,
                   run_pc, scheduler_running, digest, faults,
                   digest_job, enable_daily_summaries, jobs, session, sessions>>

\* cmd_alert_del, lines 417-418: /alert_del id
cmd_alert_del ==
    /\ Suspended
    /\ cmds < MaxCmds
    /\ cmds' = cmds + 1
    /\ \E id \in AlertIds, c \in Chats : alerts' = DeleteAlert(alerts, id, c)
    /\ UNCHANGED <<next_id, user_config, alert_history, outbox, running,
                   pc, market_data, todo, is_silent, current_hour, host_offset,
                   market_cache, loop_tasks, quiet_market, market_call, db_call,
                   run_pc, scheduler_running, digest, faults,
                   digest_job, enable_daily_summaries, jobs, session, sessions>>

\* cmd_start, line 59: create_user_config
cmd_start ==
    /\ Suspended
    /\ cmds < MaxCmds
    /\ cmds' = cmds + 1
    /\ \E c \in Chats : user_config' = CreateUserConfig(user_config, c)
    /\ UNCHANGED <<alerts, next_id, alert_history, outbox, running, pc,
                   market_data, todo, is_silent, current_hour, host_offset,
                   market_cache, loop_tasks, quiet_market, market_call, db_call,
                   run_pc, scheduler_running, digest, faults,
                   digest_job, enable_daily_summaries, jobs, session, sessions>>

\* Database.update_user_config: UPDATE user_config SET ... WHERE chat_id = ?
UpdateUserConfig(cfgs, chat_id, field, value) ==
    IF chat_id \in DOMAIN cfgs
    THEN [cfgs EXCEPT ![chat_id] =
            IF field = "silent"
            THEN [@ EXCEPT !.silent_start = value[1], !.silent_end = value[2]]
            ELSE IF field = "timezone" THEN [@ EXCEPT !.timezone = value]
            ELSE [@ EXCEPT !.notifications_enabled = value]]
    ELSE cfgs

\* cmd_config, lines 497-525: /config silent|timezone|notifications ...
cmd_config ==
    /\ Suspended
    /\ cmds < MaxCmds
    /\ cmds' = cmds + 1
    /\ \E c \in Chats :
         \/ \E w \in SilentInputs :
               user_config' = UpdateUserConfig(user_config, c, "silent", w)
         \/ \E tz \in Timezones :
               user_config' = UpdateUserConfig(user_config, c, "timezone", tz)
         \/ \E on \in BOOLEAN :
               user_config' = UpdateUserConfig(user_config, c, "notifications", on)
    /\ UNCHANGED <<alerts, next_id, alert_history, outbox, running, pc,
                   market_data, todo, is_silent, current_hour, host_offset,
                   market_cache, loop_tasks, quiet_market, market_call, db_call,
                   run_pc, scheduler_running, digest, faults,
                   digest_job, enable_daily_summaries, jobs, session, sessions>>

Next ==
    \/ start
    \/ fetch_market
    \/ fetch_market_raises
    \/ no_market_data
    \/ load_alerts
    \/ load_alerts_raises
    \/ process_alert
    \/ is_silent_hours
    \/ is_silent_hours_raises
    \/ send_alert_checks
    \/ send_message
    \/ send_message_raises
    \/ update_alert_retry
    \/ update_alert_retry_raises
    \/ add_alert_history
    \/ add_alert_history_raises
    \/ end_cycle
    \/ wake
    \/ tick
    \/ cmd_alert_add
    \/ cmd_acknowledge
    \/ cmd_alert_del
    \/ cmd_start
    \/ cmd_config

Spec == Init /\ [][Next]_vars

(* ------------------- the engine alone, on any one rule ------------------ *)

\* the rows Database.add_alert can insert for one chat: price rules in either
\* currency and direction, change rules (currency left at its default 'USD')
AnyRules ==
    {NewAlert(1, "c1", "price", v, cur, cmp) :
        v \in Values, cur \in Currencies, cmp \in Comparisons}
    \cup {NewAlert(1, "c1", "change", v, "USD", cmp) :
        v \in Values, cmp \in Comparisons}

\* the rows of user_config /config silent and /config notifications can leave
AnyConfigs ==
    {[DefaultUserConfig EXCEPT !.silent_start = s, !.silent_end = e,
                               !.notifications_enabled = on] :
        s \in Hours, e \in Hours, on \in BOOLEAN}

EvalInit ==
    /\ \/ \E r \in AnyRules : alerts = (1 :> r) /\ user_config = << >>
       \/ \E cfg \in AnyConfigs :
             alerts = (1 :> FreshRule) /\ user_config = ("c1" :> cfg)
    /\ next_id = 2
    /\ host_offset = 0
    /\ quiet_market = TRUE
    /\ InitRest

EvalNext ==
    \/ start
    \/ fetch_market
    \/ no_market_data
    \/ load_alerts
    \/ process_alert
    \/ is_silent_hours
    \/ send_alert_checks
    \/ send_message
    \/ update_alert_retry
    \/ add_alert_history
    \/ end_cycle
    \/ wake

EvalSpec == EvalInit /\ [][EvalNext]_vars

(* ------------------------- the scheduled engine ------------------------ *)

\* one step of the evaluation loop task that does not raise
EngineStep ==
    \/ start
    \/ fetch_market
    \/ no_market_data
    \/ load_alerts
    \/ process_alert
    \/ is_silent_hours
    \/ send_alert_checks
    \/ send_message
    \/ update_alert_retry
    \/ add_alert_history
    \/ end_cycle
    \/ wake

\* the engine, the clock and the commands on the rules and configurations there
\* are (no rule is added)
FairNext ==
    \/ EngineStep
    \/ fetch_market_raises
    \/ load_alerts_raises
    \/ is_silent_hours_raises
    \/ send_message_raises
    \/ update_alert_retry_raises
    \/ add_alert_history_raises
    \/ tick
    \/ cmd_acknowledge
    \/ cmd_alert_del
    \/ cmd_start
    \/ cmd_config

\* the steps of the special conditions that do not raise
SpecialStep ==
    \/ check_special_conditions
    \/ breakeven_get_cache
    \/ breakeven_send_message
    \/ breakeven_set_cache
    \/ rsi_get_cache
    \/ rsi_send_message
    \/ rsi_set_cache

\* a run in a market that comes near the breakeven and reaches RSI extremes:
\* no rule or one, the owner's notifications on (no row yet) or off
CycleInit ==
    /\ \/ alerts = << >> /\ next_id = 1
       \/ alerts = (1 :> FreshRule) /\ next_id = 2
    /\ \/ user_config = << >>
       \/ user_config =
             (USER_CHAT_ID :> [DefaultUserConfig EXCEPT !.notifications_enabled = FALSE])
    /\ host_offset = 0
    /\ quiet_market = FALSE
    /\ InitRest

\* the engine with its special conditions, its failures, the clock, and
\* AlertEngine.stop followed by a new AlertEngine.start
CycleNext ==
    \/ EngineStep
    \/ SpecialStep
    \/ fetch_market_raises
    \/ load_alerts_raises
    \/ is_silent_hours_raises
    \/ send_message_raises
    \/ update_alert_retry_raises
    \/ add_alert_history_raises
    \/ breakeven_raises
    \/ rsi_raises
    \/ tick
    \/ stop

CycleSpec == CycleInit /\ [][CycleNext]_vars

(* ------------------------ MarketDataCollector ------------------------- *)

\* the outcomes of the six sub-fetches gather() runs: each raised or returned a
\* value (a dict is given by its keys, a number in whole units, the RSI in
\* tenths of a point)
SubFetchResults ==
    [price : {[raised |-> TRUE, value |-> {}],
              [raised |-> FALSE,
               value |-> {"usd", "brl", "change_24h", "volume_24h"}]},
     fear_greed : {[raised |-> TRUE, value |-> {}],
                   [raised |-> FALSE, value |-> {"value", "classification"}]},
     dominance : {[raised |-> TRUE, value |-> 0]}
                 \cup {[raised |-> FALSE, value |-> v] : v \in {0, 52}},
     funding_rate : {[raised |-> TRUE, value |-> 0]}
                    \cup {[raised |-> FALSE, value |-> v] : v \in {0, 1}},
     liquidations : {[raised |-> TRUE, value |-> {}],
                     [raised |-> FALSE, value |-> {"total_24h", "longs", "shorts"}]},
     rsi : {[raised |-> TRUE, value |-> 0]}
           \cup {[raised |-> FALSE, value |-> v] : v \in {245, RSI_DEFAULT, 700}}]

\* a summary that is empty as soon as one sub-fetch has failed
GetMarketSummaryAllOrNothing(results) ==
    IF \E k \in DOMAIN results : results[k].raised
    THEN << >>
    ELSE [k \in DOMAIN results \cup {"timestamp"} |->
            IF k = "timestamp" THEN {"now"} ELSE {results[k].value}]

\* get_market_summary, lines 249-266: each result of gather(return_exceptions=True)
\* that is an exception is replaced by its default (a value is given as the
\* one-element set holding it)
GetMarketSummary(results) ==
    [price |-> {IF results.price.raised THEN {} ELSE results.price.value},
     fear_greed |-> {IF results.fear_greed.raised THEN {}
                     ELSE results.fear_greed.value},
     dominance |-> {IF results.dominance.raised THEN 0
                    ELSE results.dominance.value},
     funding_rate |-> {IF results.funding_rate.raised THEN 0
                       ELSE results.funding_rate.value},
     liquidations |-> {IF results.liquidations.raised THEN {}
                       ELSE results.liquidations.value},
     rsi |-> {IF results.rsi.raised THEN RSI_DEFAULT ELSE results.rsi.value},
     timestamp |-> {"now"}]

\* MarketDataCollector.get_market_summary is called and returns
get_market_summary ==
    /\ \E results \in SubFetchResults :
          market_call' = [method |-> "get_market_summary", input |-> results,
                          result |-> GetMarketSummary(results)]
    /\ UNCHANGED <<alerts, next_id, user_config, alert_history, outbox, running,
                   pc, market_data, todo, is_silent, current_hour, host_offset,
                   market_cache, loop_tasks, quiet_market, db_call, run_pc,
                   scheduler_running, digest, cmds, faults,
                   digest_job, enable_daily_summaries, jobs, session, sessions>>

\* prices in cents: far below the breakeven, the two cents at each edge of the
\* band of 2%, inside the band, the breakeven itself, and far above
BreakevenPrices ==
    {10000000, 11301252, 11301253, 11500000, USER_AVG_PRICE_CENTS, 11600000,
     11762527, 11762528, 13000000}

\* MarketDataCollector.check_breakeven_proximity is called and returns
check_breakeven_proximity ==
    /\ \E cents \in BreakevenPrices :
          market_call' = [method |-> "check_breakeven_proximity", input |-> cents,
                          result |-> BreakevenProximity(cents)]
    /\ UNCHANGED <<alerts, next_id, user_config, alert_history, outbox, running,
                   pc, market_data, todo, is_silent, current_hour, host_offset,
                   market_cache, loop_tasks, quiet_market, db_call, run_pc,
                   scheduler_running, digest, cmds, faults,
                   digest_job, enable_daily_summaries, jobs, session, sessions>>

Min(a, b) == IF a < b THEN a ELSE b
Max(a, b) == IF a < b THEN b ELSE a

\* what calculate_rsi's own get_btc_price can give: it raises, or it returns a
\* dict without change_24h, or one with a 24h change, in tenths of a percent
MaxChangeTenths == 130
PriceFetches ==
    {[raised |-> TRUE, has_change |-> FALSE, change_24h |-> 0],
     [raised |-> FALSE, has_change |-> FALSE, change_24h |-> 0]}
    \cup {[raised |-> FALSE, has_change |-> TRUE, change_24h |-> c] :
              c \in (0 - MaxChangeTenths)..MaxChangeTenths}

\* an RSI approximation that adds the size of a fall to the oversold bound
CalculateRsiAddsFall(price_data) ==
    IF price_data.raised THEN RSI_DEFAULT
    ELSE LET change_24h == IF price_data.has_change THEN price_data.change_24h
                           ELSE 0
             rsi == IF change_24h > 50
                    THEN RSI_OVERBOUGHT * 10 + Min(change_24h, 100)
                    ELSE IF change_24h < 0 - 50
                         THEN RSI_OVERSOLD * 10 + Min(Abs(change_24h), 100)
                         ELSE RSI_DEFAULT + change_24h * 4
         IN  Max(0, Min(1000, rsi))

\* MarketDataCollector.calculate_rsi, lines 213-234, in tenths of a point
CalculateRsi(price_data) ==
    IF price_data.raised THEN RSI_DEFAULT
    ELSE LET change_24h == IF price_data.has_change THEN price_data.change_24h
                           ELSE 0
             rsi == IF change_24h > 50
                    THEN RSI_OVERBOUGHT * 10 + Min(change_24h, 100)
                    ELSE IF change_24h < 0 - 50
                         THEN RSI_OVERSOLD * 10 - Min(Abs(change_24h), 100)
                         ELSE RSI_DEFAULT + change_24h * 4
         IN  Max(0, Min(1000, rsi))

\* MarketDataCollector.calculate_rsi is called and returns
calculate_rsi ==
    /\ \E price_data \in PriceFetches :
          market_call' = [method |-> "calculate_rsi", input |-> price_data,
                          result |-> CalculateRsi(price_data)]
    /\ UNCHANGED <<alerts, next_id, user_config, alert_history, outbox, running,
                   pc, market_data, todo, is_silent, current_hour, host_offset,
                   market_cache, loop_tasks, quiet_market, db_call, run_pc,
                   scheduler_running, digest, cmds, faults,
                   digest_job, enable_daily_summaries, jobs, session, sessions>>

\* the collector's methods, called with any input
MarketInit ==
    /\ alerts = << >>
    /\ next_id = 1
    /\ user_config = << >>
    /\ host_offset = 0
    /\ quiet_market = TRUE
    /\ InitRest

MarketNext ==
    \/ get_market_summary
    \/ check_breakeven_proximity
    \/ calculate_rsi

MarketSpec == MarketInit /\ [][MarketNext]_vars

(* -------------------- the store, called with any input ------------------ *)

\* Database.acknowledge_alert, lines 155-158: cursor.rowcount of the UPDATE
AcknowledgeAlertRowcount(tbl, id) ==
    IF id \in DOMAIN tbl /\ tbl[id].status = "active" THEN 1 ELSE 0

\* Database.acknowledge_alert is called, as cmd_acknowledge calls it, and returns
acknowledge_alert ==
    /\ \E alert_id \in AlertIds, notes \in NotesInputs :
          /\ alerts' = AcknowledgeAlert(alerts, alert_id, notes)
          /\ db_call' = [method |-> "acknowledge_alert",
                         input |-> <<alert_id, notes>>,
                         result |-> AcknowledgeAlertRowcount(alerts, alert_id) > 0]
    /\ UNCHANGED <<next_id, user_config, alert_history, outbox, running,
                   pc, market_data, todo, is_silent, current_hour, host_offset,
                   market_cache, loop_tasks, quiet_market, market_call,
                   run_pc, scheduler_running, digest, cmds, faults,
                   digest_job, enable_daily_summaries, jobs, session, sessions>>

\* a get_user_config that inserts the defaults whether a row is there or not
GetUserConfigReplacing(cfgs, chat_id) ==
    LET replaced == [c \in DOMAIN cfgs \cup {chat_id} |->
                        IF c = chat_id THEN DefaultUserConfig ELSE cfgs[c]]
    IN  [user_config |-> replaced, row |-> replaced[chat_id]]

\* Database.get_user_config: the table it leaves and the row it returns; when
\* the SELECT finds no row it calls create_user_config and then itself again
RECURSIVE GetUserConfig(_, _)
GetUserConfig(cfgs, chat_id) ==
    IF chat_id \notin DOMAIN cfgs
    THEN GetUserConfig(CreateUserConfig(cfgs, chat_id), chat_id)
    ELSE [user_config |-> cfgs, row |-> cfgs[chat_id]]

\* Database.get_user_config is called, as cmd_config and _is_silent_hours call
\* it, and returns
get_user_config ==
    /\ \E chat_id \in Chats :
          LET got == GetUserConfig(user_config, chat_id)
          IN  /\ user_config' = got.user_config
              /\ db_call' = [method |-> "get_user_config", input |-> chat_id,
                             result |-> got.row]
    /\ UNCHANGED <<alerts, next_id, alert_history, outbox, running, pc,
                   market_data, todo, is_silent, current_hour, host_offset,
                   market_cache, loop_tasks, quiet_market, market_call,
                   run_pc, scheduler_running, digest, cmds, faults,
                   digest_job, enable_daily_summaries, jobs, session, sessions>>

\* the two integers a user can type after /config silent: int() accepts those
\* of SilentInputs and also numbers that are no hour of the day
SilentArgs == SilentInputs \cup {<<25, 7>>, <<22, 0 - 1>>}

\* Database.update_user_config is called, as cmd_config calls it for
\* /config silent, /config timezone and /config notifications
update_user_config ==
    /\ \E chat_id \in Chats :
         \/ \E w \in SilentArgs :
               /\ user_config' = UpdateUserConfig(user_config, chat_id, "silent", w)
               /\ db_call' = [method |-> "update_user_config",
                              input |-> <<chat_id, "silent">>, result |-> NULL]
         \/ \E tz \in Timezones :
               /\ user_config' = UpdateUserConfig(user_config, chat_id, "timezone", tz)
               /\ db_call' = [method |-> "update_user_config",
                              input |-> <<chat_id, "timezone">>, result |-> NULL]
         \/ \E on \in BOOLEAN :
               /\ user_config' =
                     UpdateUserConfig(user_config, chat_id, "notifications", on)
               /\ db_call' = [method |-> "update_user_config",
                              input |-> <<chat_id, "notifications">>, result |-> NULL]
    /\ UNCHANGED <<alerts, next_id, alert_history, outbox, running, pc,
                   market_data, todo, is_silent, current_hour, host_offset,
                   market_cache, loop_tasks, quiet_market, market_call,
                   run_pc, scheduler_running, digest, cmds, faults,
                   digest_job, enable_daily_summaries, jobs, session, sessions>>

\* the store as an earlier run left it, no configuration yet
StoreInit ==
    /\ \/ alerts = << >> /\ next_id = 1
       \/ \E r \in EarlierRules : alerts = (1 :> r) /\ next_id = 2
    /\ user_config = << >>
    /\ host_offset = 0
    /\ quiet_market = TRUE
    /\ InitRest

\* the store's methods called in any order while time passes
StoreNext ==
    \/ acknowledge_alert
    \/ get_user_config
    \/ update_user_config
    \/ tick

StoreSpec == StoreInit /\ [][StoreNext]_vars

(* ---------------------- deleting rules under the engine ----------------- *)

\* Database.delete_alert, lines 168-171: cursor.rowcount of the DELETE
DeleteAlertRowcount(tbl, id, chat_id) ==
    IF id \in DOMAIN tbl /\ tbl[id].chat_id = chat_id THEN 1 ELSE 0

\* Database.delete_alert is called, as cmd_alert_del calls it, and returns
delete_alert ==
    /\ Suspended
    /\ \E alert_id \in AlertIds, chat_id \in Chats :
          /\ alerts' = DeleteAlert(alerts, alert_id, chat_id)
          /\ db_call' = [method |-> "delete_alert",
                         input |-> <<alert_id, chat_id>>,
                         result |-> DeleteAlertRowcount(alerts, alert_id, chat_id) > 0]
    /\ UNCHANGED <<next_id, user_config, alert_history, outbox, running,
                   pc, market_data, todo, is_silent, current_hour, host_offset,
                   market_cache, loop_tasks, quiet_market, market_call,
                   run_pc, scheduler_running, digest, cmds, faults,
                   digest_job, enable_daily_summaries, jobs, session, sessions>>

\* a rule of each of two owners, no configuration yet
DeleteInit ==
    /\ alerts = (1 :> FreshRule)
                 @@ (2 :> NewAlert(2, "c2", "price", MaxPrice, "BRL", "above"))
    /\ next_id = 3
    /\ user_config = << >>
    /\ host_offset = 0
    /\ quiet_market = TRUE
    /\ InitRest

\* the evaluation loop, and delete_alert called between its steps
DeleteNext ==
    \/ EngineStep
    \/ delete_alert

DeleteSpec == DeleteInit /\ [][DeleteNext]_vars

(* ---------------------- the engine when a send fails -------------------- *)

\* one rule never delivered, no configuration yet
SendFailureInit ==
    /\ alerts = (1 :> FreshRule)
    /\ next_id = 2
    /\ user_config = << >>
    /\ host_offset = 0
    /\ quiet_market = TRUE
    /\ InitRest

\* the evaluation loop, a bot.send_message that can raise, and the clock: the
\* only failure of a run is a failed send
SendFailureNext ==
    \/ EngineStep
    \/ send_message_raises
    \/ tick

SendFailureSpec == SendFailureInit /\ [][SendFailureNext]_vars

(* --------------------- /alert_add at any price ------------------------- *)

\* thresholds and prices (USD and BRL) below, at and above one another
AlertAddPrices == 1..MaxPrice + 1

\* cmd_alert_add, lines 318-340, with any threshold, currency and price that
\* get_btc_price returns: the rule is inserted and its id returned
alert_add ==
    /\ next_id <= MaxAlerts
    /\ \E value \in AlertAddPrices, currency \in Currencies,
          usd \in AlertAddPrices, brl \in AlertAddPrices :
          LET current_price == IF currency = "USD" THEN usd ELSE brl
              comparison == AlertAddComparison(value, current_price)
          IN  /\ alerts' = alerts @@
                    (next_id :> NewAlert(next_id, USER_CHAT_ID, "price", value,
                                         currency, comparison))
              /\ db_call' = [method |-> "add_alert",
                             input |-> [value |-> value, currency |-> currency,
                                        usd |-> usd, brl |-> brl],
                             result |-> next_id]
    /\ next_id' = next_id + 1
    /\ UNCHANGED <<user_config, alert_history, outbox, running, pc,
                   market_data, todo, is_silent, current_hour, host_offset,
                   market_cache, loop_tasks, quiet_market, market_call,
                   run_pc, scheduler_running, digest, cmds, faults,
                   digest_job, enable_daily_summaries, jobs, session, sessions>>

\* an empty store
AlertAddInit ==
    /\ alerts = << >>
    /\ next_id = 1
    /\ user_config = << >>
    /\ host_offset = 0
    /\ quiet_market = TRUE
    /\ InitRest

AlertAddNext == alert_add

AlertAddSpec == AlertAddInit /\ [][AlertAddNext]_vars

(* ------------------- the service, from start to close ------------------ *)

\* the steps of a digest job that do not raise
DigestStep ==
    \/ scheduled_digest
    \/ digest_is_silent_hours
    \/ digest_get_market_summary
    \/ digest_send_message

\* BTCTelegramBot.run after db.connect(): no rule or one, no configuration yet
ServiceInit ==
    /\ \/ alerts = << >> /\ next_id = 1
       \/ alerts = (1 :> FreshRule) /\ next_id = 2
    /\ user_config = << >>
    /\ host_offset = 0
    /\ quiet_market = TRUE
    /\ InitRest

\* the evaluation loop and the digest jobs with their failures, the clock, and
\* the finally block of BTCTelegramBot.run
ServiceNext ==
    \/ EngineStep
    \/ DigestStep
    \/ fetch_market_raises
    \/ load_alerts_raises
    \/ is_silent_hours_raises
    \/ send_message_raises
    \/ update_alert_retry_raises
    \/ add_alert_history_raises
    \/ digest_raises
    \/ tick
    \/ run_stop
    \/ run_close

ServiceSpec == ServiceInit /\ [][ServiceNext]_vars

(* ------------------- the digests and the /daily command ----------------- *)

\* cmd_daily, lines 273-275: /daily on
cmd_daily_on ==
    /\ Suspended
    /\ running
    /\ enable_daily_summaries' = TRUE
    /\ UNCHANGED <<alerts, next_id, user_config, alert_history, outbox, running,
                   pc, market_data, todo, is_silent, current_hour, host_offset,
                   market_cache, loop_tasks, quiet_market, market_call, db_call, run_pc,
                   scheduler_running, digest, cmds, faults,
                   digest_job, jobs, session, sessions>>

\* cmd_daily, lines 277-279: /daily off
cmd_daily_off ==
    /\ Suspended
    /\ running
    /\ enable_daily_summaries' = FALSE
    /\ UNCHANGED <<alerts, next_id, user_config, alert_history, outbox, running,
                   pc, market_data, todo, is_silent, current_hour, host_offset,
                   market_cache, loop_tasks, quiet_market, market_call, db_call, run_pc,
                   scheduler_running, digest, cmds, faults,
                   digest_job, jobs, session, sessions>>

\* the rows of user_config the primary owner can have when a digest runs: none
\* yet, notifications off, or a silent window during the day
DigestConfigs ==
    {<< >>,
     (USER_CHAT_ID :> [DefaultUserConfig EXCEPT !.notifications_enabled = FALSE]),
     (USER_CHAT_ID :> [DefaultUserConfig EXCEPT !.silent_start = 8, !.silent_end = 20])}

\* BTCTelegramBot.run after db.connect(): one rule, the primary owner's
\* configuration as an earlier run left it
DigestInit ==
    /\ alerts = (1 :> FreshRule)
    /\ next_id = 2
    /\ user_config \in DigestConfigs
    /\ host_offset = 0
    /\ quiet_market = TRUE
    /\ InitRest

\* the evaluation loop, the digests the scheduler and cmd_daily run, with their
\* failures, and /daily on and /daily off
DigestNext ==
    \/ EngineStep
    \/ DigestStep
    \/ daily_digest
    \/ digest_is_silent_hours_raises
    \/ digest_raises
    \/ cmd_daily_on
    \/ cmd_daily_off

DigestSpec == DigestInit /\ [][DigestNext]_vars

(* ------------- two owners' rules and a store that can fail ------------- *)

\* a rule of each of two owners, both true at every eventful price
TwoRulesInit ==
    /\ alerts = (1 :> FreshRule)
                 @@ (2 :> NewAlert(2, "c2", "price", MaxPrice, "BRL", "above"))
    /\ next_id = 3
    /\ user_config = << >>
    /\ host_offset = 0
    /\ quiet_market = FALSE
    /\ InitRest

\* the engine with its special conditions, the clock, and the store calls of
\* _send_alert raising
TwoRulesNext ==
    \/ EngineStep
    \/ SpecialStep
    \/ is_silent_hours_raises
    \/ update_alert_retry_raises
    \/ add_alert_history_raises
    \/ tick

TwoRulesSpec == TwoRulesInit /\ [][TwoRulesNext]_vars

\* the event loop resumes the loop task whenever it is ready, and the clock
\* advances during every asyncio.sleep(CHECK_INTERVAL)
FairSpec == Init /\ [][FairNext]_vars /\ WF_vars(EngineStep) /\ SF_vars(tick)

(* ----------------------------- properties ----------------------------- *)

\* C1: a price rule triggers exactly when its comparison is 'above' and the
\* snapshot price in the rule's currency is >= the threshold, or its comparison
\* is 'below' and that price is <= the threshold; a price equal to the threshold
\* triggers under both comparisons.
C1_PriceRuleTriggers ==
    [][(pc = "process" /\ todo # << >> /\ market_data.has_price
            /\ Head(todo).type = "price")
        => LET rule == Head(todo)
               price == IF rule.currency = "USD" THEN market_data.usd
                                                 ELSE market_data.brl
               triggered == pc' = "is_silent"
           IN  /\ triggered <=> \/ rule.comparison = "above" /\ price >= rule.value
                                \/ rule.comparison = "below" /\ price <= rule.value
               /\ price = rule.value => triggered]_vars

\* a 'below' price rule has triggered at a price equal to its threshold
C1_Witness ==
    /\ pc = "is_silent"
    /\ Head(todo).type = "price"
    /\ Head(todo).comparison = "below"
    /\ Head(todo).currency = "BRL"
    /\ market_data.brl = Head(todo).value

\* C2: a change rule triggers exactly when the absolute value of the 24h change
\* is >= the threshold, whatever the sign of the change and whatever the rule's
\* comparison field.
C2_ChangeRuleTriggers ==
    [][(pc = "process" /\ todo # << >> /\ market_data.has_price
            /\ Head(todo).type = "change")
        => LET rule == Head(todo)
               change == market_data.change_24h
               triggered == pc' = "is_silent"
           IN  triggered <=> (change >= rule.value \/ 0 - change >= rule.value)]_vars

\* an 'above' change rule has triggered on a fall as large as its threshold
C2_Witness ==
    /\ pc = "is_silent"
    /\ Head(todo).type = "change"
    /\ Head(todo).comparison = "above"
    /\ market_data.change_24h < 0
    /\ market_data.change_24h = 0 - Head(todo).value

\* C3: for a rule with retryCount >= 3 whose predicate is true and whose owner is
\* not silent, the notification is withheld when less than 15 minutes have passed
\* since lastRetryAt and delivered when 15 minutes or more have passed.
C3_RetryInterval ==
    [][(pc = "checked" /\ ~is_silent
            /\ Head(todo).retry_count >= MAX_ALERT_RETRIES
            /\ Head(todo).last_retry_at # NULL)
        => ((pc' = "send")
              <=> Head(todo).last_retry_at * TickSeconds
                     >= ALERT_RETRY_INTERVAL_LONG)]_vars

\* C4: when the owner of a triggered rule has notifications off or is inside the
\* silent window, the cycle sends nothing for the rule and leaves its retryCount,
\* lastRetryAt, status and the history as they are; the rule stays in the store
\* and the next cycle loads it again.
C4_SilentSuppression ==
    [][/\ (pc = "is_silent" /\ pc' = "checked" /\ faults' = faults)
          => LET cfg == user_config'[Head(todo).chat_id]
                 h == current_hour'
                 inside ==
                    \/ cfg.silent_start > cfg.silent_end
                          /\ (h >= cfg.silent_start \/ h < cfg.silent_end)
                    \/ cfg.silent_start <= cfg.silent_end
                          /\ cfg.silent_start <= h /\ h < cfg.silent_end
             IN  /\ ~cfg.notifications_enabled => is_silent'
                 /\ (cfg.notifications_enabled /\ h # NULL /\ inside) => is_silent'
       /\ (pc = "checked" /\ is_silent)
          => /\ outbox' = outbox
             /\ alerts' = alerts
             /\ alert_history' = alert_history
             /\ pc' = "process"
             /\ todo' = Tail(todo)
       /\ (pc = "load" /\ pc' = "process")
          => \A id \in DOMAIN alerts :
                alerts[id].status = "active"
                   => \E i \in DOMAIN todo' : todo'[i] = alerts[id]]_vars

\* the owner has set the window 22-6 and a triggered rule is checked at 23h
C4_Witness ==
    /\ pc = "checked"
    /\ is_silent
    /\ current_hour = 23
    /\ user_config[Head(todo).chat_id].silent_start = 22
    /\ user_config[Head(todo).chat_id].silent_end = 6

\* C5: with notifications on and local hour h, the owner is silent exactly when
\* start > end and (h >= start or h < end), or start <= end and start <= h < end;
\* with 23/7 the hours 23, 0 and 6 are silent and 7 and 12 are not; with 8/20 the
\* hours 8 and 19 are silent and 7 and 20 are not.
C5_QuietHoursTest ==
    (pc = "checked" /\ current_hour # NULL)
    => LET cfg == user_config[Head(todo).chat_id]
           first == cfg.silent_start
           last == cfg.silent_end
           h == current_hour
       IN  /\ is_silent <=> \/ first > last /\ (h >= first \/ h < last)
                            \/ first <= last /\ first <= h /\ h < last
           /\ (first = 23 /\ last = 7 /\ h \in {23, 0, 6}) => is_silent
           /\ (first = 23 /\ last = 7 /\ h \in {7, 12}) => ~is_silent
           /\ (first = 8 /\ last = 20 /\ h \in {8, 19}) => is_silent
           /\ (first = 8 /\ last = 20 /\ h \in {7, 20}) => ~is_silent

\* the owner of a triggered rule was found silent at 19h in the window 8-20
C5_Witness ==
    /\ pc = "checked"
    /\ is_silent
    /\ current_hour = 19
    /\ user_config[Head(todo).chat_id].silent_start = 8
    /\ user_config[Head(todo).chat_id].silent_end = 20

\* C6: an Active rule is loaded by every cycle; when its predicate is true, its
\* owner is not silent and its retryCount is below 3, the cycle sends its
\* notification, on the first cycle and on every later one alike; only a rule
\* that is no longer Active in the store is left out.
C6_RetryUntilAcknowledged ==
    [][/\ (pc = "load" /\ pc' = "process")
          => /\ \A id \in DOMAIN alerts :
                   alerts[id].status = "active"
                      => \E i \in DOMAIN todo' : todo'[i] = alerts[id]
             /\ \A i \in DOMAIN todo' :
                   /\ todo'[i].id \in DOMAIN alerts
                   /\ alerts[todo'[i].id].status = "active"
       /\ (pc = "process" /\ todo # << >> /\ market_data.has_price
              /\ Head(todo).type = "price" /\ Head(todo).currency = "USD"
              /\ Head(todo).comparison = "above"
              /\ market_data.usd >= Head(todo).value)
          => pc' = "is_silent"
       /\ (pc = "checked" /\ ~is_silent
              /\ Head(todo).retry_count < MAX_ALERT_RETRIES)
          => pc' = "send"
       /\ (pc = "send" /\ pc' # pc /\ faults' = faults)
          => /\ Len(outbox') = Len(outbox) + 1
             /\ outbox'[Len(outbox')].alert_id = Head(todo).id
             /\ outbox'[Len(outbox')].chat_id = Head(todo).chat_id
             /\ outbox'[Len(outbox')].attempt = Head(todo).retry_count + 1]_vars

\* one rule has been delivered on two cycles, as attempt 1 and as attempt 2
C6_Witness ==
    /\ Len(outbox) = 2
    /\ outbox[1].alert_id = outbox[2].alert_id
    /\ outbox[1].attempt = 1
    /\ outbox[2].attempt = 2

\* C7: under fair scheduling of the evaluation loop, a rule that stays Active,
\* whose predicate is true on every cycle from some cycle on and whose owner is
\* not silent from then on, goes on being delivered: the deliveries reach any
\* number (here MaxDeliveries), also past the point where retryCount is 3.
C7_DeliveredAgainAndAgain ==
    (/\ [](1 \in DOMAIN alerts /\ alerts[1].status = "active")
     /\ <>[]~(\/ pc = "no_data"
              \/ pc = "load" /\ ~market_data.has_price
              \/ pc = "load" /\ 1 \in DOMAIN alerts
                    /\ ~ShouldTrigger(alerts[1], market_data)
              \/ pc = "checked" /\ Head(todo).id = 1 /\ is_silent))
    => <>(Len(outbox) = MaxDeliveries)

\* the rule was delivered at retryCount 3, after the backoff had passed
C7_Witness ==
    /\ Len(outbox) = MaxDeliveries
    /\ outbox[MaxDeliveries].alert_id = 1
    /\ outbox[MaxDeliveries].attempt = MAX_ALERT_RETRIES + 1
    /\ 1 \in DOMAIN alerts
    /\ alerts[1].status = "active"

\* C8: a delivered notification is followed by update_alert_retry and by
\* add_alert_history; the first adds exactly 1 to the rule's retryCount and sets
\* its lastRetryAt to now, and nothing else changes a retryCount; the second
\* appends exactly one row with the rule id, the owner and the snapshot's
\* priceUsd, priceBrl, change24h and volume24h, and nothing else writes the
\* history; while no call has failed there is one row per delivery.
C8_DeliveryBookkeeping ==
    /\ [](faults = 0
            => /\ Len(alert_history)
                     = Len(outbox) - (IF pc \in {"update", "history"} THEN 1 ELSE 0)
               /\ \A i \in DOMAIN alert_history :
                     /\ alert_history[i].alert_id = outbox[i].alert_id
                     /\ alert_history[i].chat_id = outbox[i].chat_id)
    /\ [][/\ (pc = "send" /\ outbox' # outbox) => pc' = "update"
          /\ (pc = "update" /\ pc' = "history")
             => \A id \in DOMAIN alerts :
                   IF id = Head(todo).id
                   THEN /\ alerts'[id].retry_count = alerts[id].retry_count + 1
                        /\ alerts'[id].last_retry_at = 0
                   ELSE alerts'[id] = alerts[id]
          /\ \A id \in DOMAIN alerts \cap DOMAIN alerts' :
                alerts'[id].retry_count # alerts[id].retry_count
                   => pc = "update" /\ id = Head(todo).id
          /\ alert_history' # alert_history
             => /\ pc = "history"
                /\ alert_history' = Append(alert_history,
                      [alert_id |-> Head(todo).id, chat_id |-> Head(todo).chat_id,
                       price_usd |-> market_data.usd, price_brl |-> market_data.brl,
                       variation_24h |-> market_data.change_24h,
                       volume_24h |-> market_data.volume_24h])]_vars

\* an Active USD 'above' rule at retryCount 0 has been delivered once: one
\* message, retryCount 1, one history row with the snapshot's values
C8_Witness ==
    /\ pc = "process"
    /\ faults = 0
    /\ Len(outbox) = 1
    /\ outbox[1].attempt = 1
    /\ 1 \in DOMAIN alerts
    /\ alerts[1].retry_count = 1
    /\ alerts[1].last_retry_at = 0
    /\ Len(alert_history) = 1
    /\ alert_history[1].alert_id = 1
    /\ alert_history[1].price_usd = market_data.usd
    /\ alert_history[1].price_brl = market_data.brl
    /\ alert_history[1].price_usd # alert_history[1].price_brl

\* C9: the status of a rule is always Active or Acknowledged; a status changes
\* only from Active to Acknowledged and only in a step of the acknowledge
\* command, in which the evaluation engine does nothing; no step turns an
\* Acknowledged rule Active again.
C9_StatusTransitions ==
    /\ [](\A id \in DOMAIN alerts : alerts[id].status \in {"active", "acknowledged"})
    /\ [][\A id \in DOMAIN alerts \cap DOMAIN alerts' :
             alerts'[id].status # alerts[id].status
                => /\ alerts[id].status = "active"
                   /\ alerts'[id].status = "acknowledged"
                   /\ \E notes \in NotesInputs :
                         alerts' = AcknowledgeAlert(alerts, id, notes)
                   /\ cmds' = cmds + 1
                   /\ pc' = pc
                   /\ todo' = todo
                   /\ outbox' = outbox
                   /\ alert_history' = alert_history]_vars

\* a rule that has been delivered was acknowledged by /ack without notes, and
\* the engine has finished a cycle since
C9_Witness ==
    /\ cmds = 1
    /\ 1 \in DOMAIN alerts
    /\ alerts[1].status = "acknowledged"
    /\ alerts[1].notes = ""
    /\ alerts[1].retry_count >= 1
    /\ Len(outbox) >= 1
    /\ pc = "sleep"

\* C10: whatever the interleaving of an evaluation cycle with an acknowledge
\* command, the retryCount of a rule changes only while the rule is Active.
C10_RetryCountOnlyWhileActive ==
    [][\A id \in DOMAIN alerts \cap DOMAIN alerts' :
          alerts[id].status # "active"
             => alerts'[id].retry_count = alerts[id].retry_count]_vars

\* C11: once a rule is Acknowledged, no alert message for it is sent and no
\* history row for it is written any more, also by a cycle that had loaded its
\* list of active rules before the acknowledgement.
C11_AcknowledgedNeverEvaluated ==
    [][\A id \in DOMAIN alerts :
          alerts[id].status = "acknowledged"
             => /\ Len(outbox') > Len(outbox)
                   => outbox'[Len(outbox')].alert_id # id
                /\ Len(alert_history') > Len(alert_history)
                   => alert_history'[Len(alert_history')].alert_id # id]_vars

\* C12: a breakeven notification is sent only when no breakeven notification
\* was sent (and marked) during the hour before: with the price staying near the
\* breakeven, cycles 5 minutes apart send one notification per hour.
C12_BreakevenOncePerHour ==
    [][(pc = "be_send" /\ Len(outbox') > Len(outbox))
        => \/ BreakevenKey \notin DOMAIN market_cache
           \/ market_cache[BreakevenKey] * CHECK_INTERVAL >= HourSeconds]_vars

\* C13: while the breakeven marker is within its TTL a breakeven check delivers
\* nothing (two checks within the TTL: at most one delivery); a check that finds
\* the marker expired, or none, delivers exactly one notification and writes a
\* marker of age 0; breakeven notifications are sent in no other way.
C13_BreakevenMarkerIdempotence ==
    [][LET fresh == /\ BreakevenKey \in DOMAIN market_cache
                    /\ market_cache[BreakevenKey] * CHECK_INTERVAL
                          < CACHE_TTL_MINUTES * 60
           returns == faults' = faults /\ pc' # pc /\ pc' # "idle"
       IN  /\ (pc = "be_cache" /\ returns /\ fresh)
              => pc' # "be_send" /\ outbox' = outbox /\ market_cache' = market_cache
           /\ (pc = "be_cache" /\ returns /\ ~fresh)
              => pc' = "be_send" /\ outbox' = outbox
           /\ (pc = "be_send" /\ returns)
              => /\ outbox' = Append(outbox, SpecialMessage("breakeven"))
                 /\ pc' = "be_mark"
           /\ (pc = "be_mark" /\ returns)
              => /\ BreakevenKey \in DOMAIN market_cache'
                 /\ market_cache'[BreakevenKey] = 0
                 /\ outbox' = outbox
           /\ (Len(outbox') > Len(outbox)
                  /\ outbox'[Len(outbox')].kind = "breakeven")
              => pc = "be_send"]_vars

\* one breakeven notification was sent and marked, and the next check (of an
\* engine started again at once) finds the marker within its TTL
C13_Witness ==
    /\ pc = "be_cache"
    /\ Len(outbox) = 1
    /\ outbox[1].kind = "breakeven"
    /\ BreakevenKey \in DOMAIN market_cache
    /\ market_cache[BreakevenKey] = 0

C15_QuietHoursSuppressSpecial ==
    [][(/\ USER_CHAT_ID \in DOMAIN user_config
        /\ ~user_config[USER_CHAT_ID].notifications_enabled)
       => /\ market_cache' = market_cache
             \/ \A k \in DOMAIN market_cache' :
                   /\ k \in DOMAIN market_cache
                   /\ market_cache'[k] >= market_cache[k]
          /\ Len(outbox') > Len(outbox)
             => outbox'[Len(outbox')].kind \notin {"breakeven", "rsi"}]_vars

\* C16: the RSI check is performed whatever the outcome of the breakeven
\* check: when the breakeven check of a running cycle ends, by a suppression, a
\* delivery or a failure, and the RSI of the snapshot is extreme, the RSI check
\* comes next.
C16_RsiCheckedAfterBreakeven ==
    [][(/\ pc \in {"be_cache", "be_send", "be_mark"}
        /\ pc' \notin {"be_cache", "be_send", "be_mark", "idle"}
        /\ market_data.rsi <= RSI_OVERSOLD * 10
           \/ market_data.rsi >= RSI_OVERBOUGHT * 10)
       => pc' = "rsi_cache"]_vars

\* C17: every delivered special notification has its history record: when the
\* loop is asleep and nothing has failed, alert_history holds as many rows with no rule id and the
\* primary owner's chat id as breakeven and RSI notifications were delivered.
C17_SpecialDeliveryHasHistory ==
    (pc = "sleep" /\ faults = 0) =>
        Cardinality({i \in 1..Len(outbox) : outbox[i].kind \in {"breakeven", "rsi"}})
        = Cardinality({i \in 1..Len(alert_history) :
                          /\ alert_history[i].alert_id = NULL
                          /\ alert_history[i].chat_id = USER_CHAT_ID})

\* C18: the loop is never terminated by a failure of its body: a step that
\* fails leaves the engine running and the loop task alive, a cycle of the
\* running engine comes to its sleep (unless the outbox bound stops a send),
\* and after every sleep another cycle starts.
C18_LoopSurvivesFailures ==
    /\ [][faults' > faults => (running' /\ pc' # "idle")]_vars
    /\ (running /\ pc # "sleep") ~> (pc = "sleep" \/ Len(outbox) = MaxDeliveries)
    /\ (running /\ pc = "sleep") ~> (pc = "fetch")

\* after MaxFaults failures the loop has started one more cycle
C18_Witness ==
    /\ faults = MaxFaults
    /\ running
    /\ pc = "fetch"

\* C19: after a cycle whose body failed with an exception the loop sleeps the
\* 60-second fallback interval, and after a cycle that completed normally it
\* sleeps CHECK_INTERVAL.
C19_FallbackSleepAfterFailure ==
    [][(pc # pc' /\ LoopSleep(pc') > 0)
       => LoopSleep(pc') = IF faults' > faults THEN FALLBACK_INTERVAL
                           ELSE CHECK_INTERVAL]_vars

\* C20: at most one evaluation cycle is in progress at any time: whatever
\* sequence of start and stop there was, there is never more than one live loop
\* task, there is one exactly while the engine is running, and a cycle starts
\* only from the idle engine or from the sleep that follows the previous cycle,
\* however long that cycle took.
C20_SingleLoopTask ==
    /\ [](/\ loop_tasks <= 1
          /\ running <=> loop_tasks = 1
          /\ pc # "idle" <=> loop_tasks = 1)
    /\ [][(pc' = "fetch" /\ pc # "fetch") => pc \in {"idle", "sleep"}]_vars

\* the engine was stopped right after it wrote the breakeven marker and started
\* again: one loop task, in the fetch of its first cycle
C20_Witness ==
    /\ running
    /\ loop_tasks = 1
    /\ pc = "fetch"
    /\ <<"breakeven_alert_sent", 0>> \in DOMAIN market_cache
    /\ market_cache[<<"breakeven_alert_sent", 0>>] = 0

C22_QuietHoursFailOpen ==
    /\ [][(pc = "is_silent" /\ faults' > faults)
            => /\ pc' = "checked"
               /\ ~is_silent'
               /\ todo' = todo]_vars
    /\ [][(/\ pc = "is_silent"
            /\ pc' = "checked"
            /\ faults' = faults
            /\ user_config'[Head(todo).chat_id].notifications_enabled
            /\ user_config'[Head(todo).chat_id].timezone # "America/Sao_Paulo")
            => ~is_silent' /\ todo' = todo]_vars
    /\ [][(/\ pc = "checked"
            /\ ~is_silent
            /\ pc' # "idle"
            /\ ~RetryBackoff(Head(todo), host_offset))
            => pc' = "send" /\ todo' = todo]_vars
    /\ [][(pc = "send" /\ pc' = "update")
            => outbox' = Append(outbox, AlertMessage(Head(todo)))]_vars

\* the configuration lookup has failed for the first of two rules of different
\* owners: the first owner counts as not silent, the second rule is still listed
C22_Witness ==
    /\ pc = "checked"
    /\ faults > 0
    /\ ~is_silent
    /\ Len(todo) = 2
    /\ todo[1].chat_id # todo[2].chat_id
    /\ todo[1].chat_id \notin DOMAIN user_config

\* C23: a store failure while delivering or recording one rule is confined to
\* that rule and that cycle: the failed call writes nothing, the loop task goes
\* on with the rest of the list, every listed rule whose predicate is true is
\* taken to its quiet-hours check, the special conditions are checked when the
\* list is done, and the engine stays running.
C23_StoreFailureConfined ==
    /\ [][(pc \in {"update", "history"} /\ faults' > faults)
            => /\ pc' = "process"
               /\ todo' = Tail(todo)
               /\ alerts' = alerts
               /\ alert_history' = alert_history
               /\ running']_vars
    /\ [][(pc = "is_silent" /\ faults' > faults)
            => pc' = "checked" /\ todo' = todo /\ running']_vars
    /\ [][(/\ pc = "process"
            /\ todo # << >>
            /\ Head(todo).type = "price"
            /\ market_data.has_price
            /\ Head(todo).comparison = "above"
            /\ Head(todo).value <= IF Head(todo).currency = "USD"
                                   THEN market_data.usd ELSE market_data.brl)
            => pc' = "is_silent" /\ todo' = todo]_vars
    /\ [][(/\ pc = "process"
            /\ todo = << >>
            /\ market_data.has_price
            /\ (CheckBreakevenProximity(market_data.usd)
                \/ RsiExtreme(market_data.rsi)))
            => pc' \in {"be_cache", "rsi_cache"}]_vars

\* the history write of the first owner's rule failed; the second owner's rule
\* was delivered and recorded and the special conditions are being checked
C23_Witness ==
    /\ pc \in {"be_cache", "rsi_cache"}
    /\ faults = 1
    /\ Len(outbox) = 2
    /\ outbox[1].alert_id = 1
    /\ outbox[2].alert_id = 2
    /\ alerts[1].retry_count = 1
    /\ Len(alert_history) = 1
    /\ alert_history[1].alert_id = 2

\* C24: the engine tolerates a snapshot without a price: while the cycle holds
\* such a snapshot the loop task is only at the rule list or at its end, no
\* step of it sends a message, writes a history row or changes a rule, and the
\* cycle comes to its sleep with the engine running.
C24_PartialSnapshotTolerated ==
    /\ []((pc \notin {"idle", "fetch", "no_data", "sleep"} /\ ~market_data.has_price)
            => pc \in {"load", "process"})
    /\ [][(pc \in {"load", "process"} /\ ~market_data.has_price)
            => /\ outbox' = outbox
               /\ alert_history' = alert_history
               /\ alerts' = alerts
               /\ running'
               /\ faults' = faults
               /\ pc' \in {"process", "sleep"}]_vars

\* a cycle on a snapshot without a price has gone through its list, on which
\* there was a rule that fires at a price of zero, and nothing was delivered
C24_Witness ==
    /\ pc = "process"
    /\ todo = << >>
    /\ market_data.ok
    /\ ~market_data.has_price
    /\ 1 \in DOMAIN alerts
    /\ alerts[1].status = "active"
    /\ alerts[1].type = "price"
    /\ alerts[1].comparison = "below"
    /\ alerts[1].retry_count = 0
    /\ outbox = << >>

\* C25: get_market_summary returns, for every combination of failing and
\* succeeding sub-fetches, a snapshot with the keys price, fear_greed,
\* dominance, funding_rate, liquidations, rsi and timestamp, in which every
\* failed sub-fetch is replaced by its default (an empty dict, zero, RSI 50)
\* and every other one has the value it returned.
C25_SummaryHasAllKeys ==
    market_call.method = "get_market_summary" =>
        LET given == market_call.input
            summary == market_call.result
        IN  /\ DOMAIN summary = {"price", "fear_greed", "dominance", "funding_rate",
                                 "liquidations", "rsi", "timestamp"}
            /\ \A k \in {"price", "fear_greed", "liquidations"} :
                  summary[k] = {IF given[k].raised THEN {} ELSE given[k].value}
            /\ \A k \in {"dominance", "funding_rate"} :
                  summary[k] = {IF given[k].raised THEN 0 ELSE given[k].value}
            /\ summary.rsi = {IF given.rsi.raised THEN 50 * 10 ELSE given.rsi.value}

\* the price and RSI sub-fetches failed and the other four returned
C25_Witness ==
    /\ market_call.method = "get_market_summary"
    /\ market_call.input.price.raised
    /\ market_call.input.rsi.raised
    /\ ~market_call.input.fear_greed.raised
    /\ ~market_call.input.dominance.raised
    /\ ~market_call.input.funding_rate.raised
    /\ ~market_call.input.liquidations.raised
    /\ market_call.result.price = {{}}
    /\ market_call.result.rsi = {50 * 10}

\* C26: check_breakeven_proximity(price) returns is_near exactly when the price
\* is at most 2% of the breakeven away from it, on either side, together with
\* the signed percentage difference; at the breakeven 115318.90 the prices
\* 115000 and 116000 are near (the difference at 116000 is +0.59%) and 100000
\* is not.
C26_BreakevenProximity ==
    market_call.method = "check_breakeven_proximity" =>
        LET cents == market_call.input
            is_near == market_call.result.is_near
            diff == market_call.result.diff_percent
            breakeven == 11531890
            size == IF diff < 0 THEN 0 - diff ELSE diff
        IN  /\ is_near <=> (/\ (cents - breakeven) * 100 <= 2 * breakeven
                            /\ (breakeven - cents) * 100 <= 2 * breakeven)
            /\ diff > 0 => cents > breakeven
            /\ diff < 0 => cents < breakeven
            /\ cents = breakeven => diff = 0
            /\ is_near => size <= 200
            /\ size < 200 => is_near
            /\ cents = 11500000 => (is_near /\ size < 200 /\ diff = 0 - 27)
            /\ cents = 11600000 => (is_near /\ diff = 59)
            /\ cents = 10000000 => (~is_near /\ diff = 0 - 1328)

\* the call at 116000: near, +0.59%
C26_Witness ==
    /\ market_call.method = "check_breakeven_proximity"
    /\ market_call.input = 11600000
    /\ market_call.result.is_near
    /\ market_call.result.diff_percent = 59

\* C27: the approximated RSI is always within 0..100; it is at least 70 for
\* every 24h change above +5% and at most 30 for every 24h change below -5%;
\* it is the neutral 50 when the price fetch fails.
C27_RsiRange ==
    market_call.method = "calculate_rsi" =>
        LET price_data == market_call.input
            rsi == market_call.result
        IN  /\ 0 <= rsi /\ rsi <= 100 * 10
            /\ (~price_data.raised /\ price_data.has_change
                    /\ price_data.change_24h > 5 * 10)
               => rsi >= 70 * 10
            /\ (~price_data.raised /\ price_data.has_change
                    /\ price_data.change_24h < 0 - 5 * 10)
               => rsi <= 30 * 10
            /\ price_data.raised => rsi = 50 * 10

\* the call on a 24h change of -5.1%: RSI 24.9
C27_Witness ==
    /\ market_call.method = "calculate_rsi"
    /\ market_call.input.change_24h = 0 - 51
    /\ market_call.result = 249

\* C28: acknowledge_alert returns true exactly when the rule exists and is
\* active when it is called; the rule then becomes acknowledged, with the given
\* notes and the time of the call, and no other rule changes.  Otherwise it
\* returns false and changes nothing: a second acknowledge of a rule returns
\* false and keeps the notes and the acknowledgement time of the first.
C28_AcknowledgeOnlyActive ==
    [][acknowledge_alert =>
        LET alert_id == db_call'.input[1]
            notes == db_call'.input[2]
            success == db_call'.result
            exists == alert_id \in DOMAIN alerts
        IN  /\ success <=> (exists /\ alerts[alert_id].status = "active")
            /\ success =>
                  /\ alerts'[alert_id].status = "acknowledged"
                  /\ alerts'[alert_id].notes = notes
                  /\ alerts'[alert_id].acked_at = 0
                  /\ \A id \in DOMAIN alerts \ {alert_id} : alerts'[id] = alerts[id]
            /\ ~success => alerts' = alerts
            /\ (exists /\ alerts[alert_id].status = "acknowledged") =>
                  /\ ~success
                  /\ alerts'[alert_id].notes = alerts[alert_id].notes
                  /\ alerts'[alert_id].acked_at = alerts[alert_id].acked_at
    ]_vars

\* a rule acknowledged with notes one tick ago has been acknowledged again,
\* without notes: the call returned false and the first notes and time stand
C28_Witness ==
    /\ db_call.method = "acknowledge_alert"
    /\ db_call.input = <<1, "">>
    /\ ~db_call.result
    /\ 1 \in DOMAIN alerts
    /\ alerts[1].status = "acknowledged"
    /\ alerts[1].notes = "sold"
    /\ alerts[1].acked_at = 1

\* C29: get_user_config returns.  For an owner without a row it adds exactly
\* one row, with the defaults (silent from 23 to 7, notifications enabled,
\* timezone America/Sao_Paulo), and returns it; for an owner with a row it
\* returns that row and leaves the table as it is, so that no access adds a
\* second row or resets what update_user_config has stored.
C29_GetUserConfigCreatesOnce ==
    [][get_user_config =>
        LET chat_id == db_call'.input
            row == db_call'.result
        IN  /\ chat_id \notin DOMAIN user_config =>
                  /\ row = [timezone |-> "America/Sao_Paulo", silent_start |-> 23,
                            silent_end |-> 7, notifications_enabled |-> TRUE]
                  /\ DOMAIN user_config' = DOMAIN user_config \cup {chat_id}
                  /\ user_config'[chat_id] = row
                  /\ \A c \in DOMAIN user_config : user_config'[c] = user_config[c]
            /\ chat_id \in DOMAIN user_config =>
                  /\ row = user_config[chat_id]
                  /\ user_config' = user_config
    ]_vars

\* the owner's row, created by a first access and then changed by
\* update_user_config, has been returned as it was stored
C29_Witness ==
    /\ db_call.method = "get_user_config"
    /\ db_call.input = "c1"
    /\ db_call.result.silent_start = 8
    /\ db_call.result.silent_end = 20
    /\ ~db_call.result.notifications_enabled
    /\ DOMAIN user_config = {"c1"}
    /\ user_config["c1"] = db_call.result

\* C30: after any sequence of /config silent commands, silent_start and
\* silent_end of every row of user_config are hours of the day, 0 to 23
C30_SilentHoursInRange ==
    \A c \in DOMAIN user_config :
        /\ user_config[c].silent_start \in 0..23
        /\ user_config[c].silent_end \in 0..23

\* C31: with silent_start equal to silent_end and notifications on, the
\* quiet-hours test answers "not silent" at every hour of the day, and a rule
\* checked under such a configuration goes on to its send unless the retry
\* backoff holds it.
C31_EqualHoursNeverSilent ==
    /\ [](pc = "checked" =>
            LET cfg == user_config[Head(todo).chat_id]
            IN  (cfg.notifications_enabled /\ cfg.silent_start = cfg.silent_end)
                   => (~is_silent /\ current_hour \in 0..23))
    /\ [][(/\ pc = "checked"
           /\ user_config[Head(todo).chat_id].notifications_enabled
           /\ user_config[Head(todo).chat_id].silent_start
                 = user_config[Head(todo).chat_id].silent_end
           /\ ~RetryBackoff(Head(todo), host_offset))
          => pc' = "send"]_vars

\* the owner's window is 9-9 and a triggered rule is checked at 9h: not silent
C31_Witness ==
    /\ pc = "checked"
    /\ ~is_silent
    /\ current_hour = 9
    /\ user_config[Head(todo).chat_id].notifications_enabled
    /\ user_config[Head(todo).chat_id].silent_start = 9
    /\ user_config[Head(todo).chat_id].silent_end = 9

\* C32: a digest job tests the primary owner's quiet hours before anything
\* else.  When the owner has notifications off or is silent, the job ends
\* having fetched no snapshot and sent no message; otherwise it goes on to fetch
\* one snapshot and sends at most one digest message; a send that fails ends
\* the job, there is no second attempt.
C32_DigestChecksQuietFirst ==
    /\ [](/\ digest_job.fetched <= 1
          /\ digest_job.sent <= 1
          /\ digest_job.sent = 1 => digest_job.fetched = 1
          /\ digest = "quiet" => (digest_job.fetched = 0 /\ digest_job.sent = 0)
          /\ digest_job.silent =>
                (digest = "none" /\ digest_job.fetched = 0 /\ digest_job.sent = 0))
    /\ [][/\ (digest = "quiet" /\ digest' # "quiet" /\ faults' = faults)
              => /\ ~user_config'[USER_CHAT_ID].notifications_enabled
                       => digest_job'.silent
                 /\ digest_job'.silent => (digest' = "none" /\ outbox' = outbox)
                 /\ ~digest_job'.silent => digest' = "fetch"
          /\ (digest = "send" /\ digest' # "send")
              => /\ digest' = "none"
                 /\ Len(outbox') <= Len(outbox) + 1
                 /\ faults' # faults => outbox' = outbox
          /\ (Len(outbox') > Len(outbox) /\ outbox'[Len(outbox')].kind = "digest")
              => (digest = "send" /\ digest_job.sent = 0 /\ digest_job'.sent = 1)
      ]_vars

\* the evening digest fired with the owner's notifications off and ended
\* without a fetch or a message
C32_Witness ==
    /\ digest_job.summary = "evening_summary"
    /\ digest_job.by = "cron"
    /\ digest_job.silent
    /\ digest = "none"
    /\ USER_CHAT_ID \in DOMAIN user_config
    /\ ~user_config[USER_CHAT_ID].notifications_enabled
    /\ outbox = << >>

\* C33: after /daily off the daily summaries are off: until /daily on, the
\* scheduler starts no morning, evening or close-of-day digest, so none is sent.
C33_DailyOffStopsDigests ==
    [][(digest = "none" /\ digest' = "quiet" /\ digest_job'.by = "cron")
          => enable_daily_summaries]_vars

\* C39: under the default configuration (silent from 23 to 7, timezone
\* America/Sao_Paulo, notifications on) every digest the scheduler fires, at
\* 08:00, 20:00 and 23:59, gets past the quiet-hours test and is sent when
\* the fetch and the send succeed.
C39_DefaultDigestsDeliverable ==
    (/\ digest_job.by = "cron"
     /\ USER_CHAT_ID \in DOMAIN user_config
     /\ user_config[USER_CHAT_ID] = DefaultUserConfig)
    => ~digest_job.silent

\* C34: delete_alert(id, chat) returns true and removes the rule exactly when
\* a rule with that id exists and belongs to that chat, leaving the other
\* rules as they are; for an id that does not exist or a rule of another chat
\* it returns false and changes no rule.  No step of the evaluation engine
\* removes a rule.
C34_DeleteOnlyOwnRule ==
    [][/\ delete_alert =>
            LET alert_id == db_call'.input[1]
                chat_id == db_call'.input[2]
                success == db_call'.result
            IN  /\ success <=> (/\ alert_id \in DOMAIN alerts
                                /\ alerts[alert_id].chat_id = chat_id)
                /\ success =>
                      /\ DOMAIN alerts' = DOMAIN alerts \ {alert_id}
                      /\ \A id \in DOMAIN alerts' : alerts'[id] = alerts[id]
                /\ ~success => alerts' = alerts
       /\ ~delete_alert => DOMAIN alerts' = DOMAIN alerts
    ]_vars

\* the owner of rule 2 asked to delete rule 1, which is not theirs: the call
\* returned false and both rules are still there
C34_Witness ==
    /\ db_call.method = "delete_alert"
    /\ db_call.input = <<1, "c2">>
    /\ ~db_call.result
    /\ DOMAIN alerts = {1, 2}
    /\ alerts[1].chat_id = "c1"

\* C35: a rule notification changes the store only after its send succeeded.
\* When bot.send_message raises for a rule, the rule's row (retry_count,
\* last_retry_at, status) and the history stay as they are and the loop goes on,
\* so the rule is still Active for the next cycle; retry_count is incremented
\* only by the step that follows a successful send, and a history row is
\* written only by the step that follows that increment.
C35_StoreChangesAfterSend ==
    [][/\ (pc = "send" /\ faults' # faults)
          => /\ alerts' = alerts
             /\ alert_history' = alert_history
             /\ outbox' = outbox
             /\ pc' = "process"
       /\ (pc' = "update" /\ pc # "update")
          => /\ pc = "send"
             /\ outbox' = Append(outbox, AlertMessage(Head(todo)))
       /\ (\E id \in DOMAIN alerts : alerts'[id].retry_count # alerts[id].retry_count)
          => /\ pc = "update"
             /\ pc' = "history"
             /\ alerts'[Head(todo).id].retry_count
                   = alerts[Head(todo).id].retry_count + 1
       /\ (pc' = "history" /\ pc # "history")
          => alerts'[Head(todo).id].retry_count
                = alerts[Head(todo).id].retry_count + 1
       /\ alert_history' # alert_history
          => /\ pc = "history"
             /\ alert_history' = Append(alert_history, HistoryRow(Head(todo), market_data))
    ]_vars

\* the send for rule 1 failed in an earlier cycle, nothing was recorded for
\* it, and this cycle is sending it again as its first delivery
C35_Witness ==
    /\ faults = 1
    /\ pc = "send"
    /\ Head(todo).id = 1
    /\ alerts[1].retry_count = 0
    /\ alerts[1].last_retry_at = NULL
    /\ alerts[1].status = "active"
    /\ alert_history = << >>
    /\ outbox = << >>

\* C36: for a rule with retry_count of 3 or more, the suppress-or-deliver
\* decision of the retry check is the one every other host offset from UTC
\* would give at the same moment, and the elapsed time the check computes since
\* the last delivery is not negative.
C36_BackoffIndependentOfHostOffset ==
    (/\ pc = "checked"
     /\ Head(todo).retry_count >= MAX_ALERT_RETRIES
     /\ Head(todo).last_retry_at # NULL)
    => /\ \A offset_hours \in HostOffsets :
             RetryBackoff(Head(todo), host_offset)
                <=> RetryBackoff(Head(todo), offset_hours)
       /\ ElapsedSeconds(Head(todo).last_retry_at, host_offset) >= 0

\* C37: while an evaluation cycle is suspended inside its 'async with
\* self.market', the collector's session is the one the cycle opened and it is
\* open, whatever digests enter and leave the collector meanwhile; and no
\* session is left open without anybody able to close it.  (Stated for runs
\* in which nothing has raised.)
C37_SharedCollectorSafe ==
    faults = 0 =>
       /\ pc = "fetch" => (session.by = "cycle" /\ session.open)
       /\ sessions = {}

\* C38: a price rule /alert_add creates with threshold v at current price p
\* (in the rule's currency) has comparison above when v > p and below
\* otherwise; for v different from p its trigger predicate is false at the
\* price of creation, and for v equal to p it is true.
C38_AlertAddComparison ==
    db_call.method = "add_alert" =>
        LET rule == alerts[db_call.result]
            v == db_call.input.value
            p == IF db_call.input.currency = "USD" THEN db_call.input.usd
                 ELSE db_call.input.brl
            at_creation == [NoMarketData EXCEPT !.ok = TRUE, !.has_price = TRUE,
                                                !.usd = db_call.input.usd,
                                                !.brl = db_call.input.brl]
        IN  /\ rule.type = "price" /\ rule.value = v
            /\ rule.currency = db_call.input.currency
            /\ rule.comparison = "above" <=> v > p
            /\ rule.comparison = "below" <=> v <= p
            /\ v # p => ~ShouldTrigger(rule, at_creation)
            /\ v = p => ShouldTrigger(rule, at_creation)

\* a BRL rule created with its threshold at the current BRL price: below
C38_Witness ==
    /\ db_call.method = "add_alert"
    /\ db_call.input.currency = "BRL"
    /\ db_call.input.value = 2
    /\ db_call.input.brl = 2
    /\ db_call.input.usd = 1
    /\ alerts[db_call.result].comparison = "below"

====
